---- MODULE Spec2Model ----
(***************************************************************************)
(* Timetable scheduling core: the student overlap index, the conflict-     *)
(* aware greedy scheduler (agents/conflict_aware_planner.py), the strict   *)
(* consecutive-lab planner with its teacher-reassignment repair pass       *)
(* (agents/planner_agent.py, utils/student_conflicts.py) and the schedule  *)
(* verifier (agents/verification_agent.py).                                *)
(*                                                                         *)
(* Encoding.  Course codes and batch ids are naturals standing for the     *)
(* strings "C1","C2",.. and "B1","B2",.. (Python compares the (code,batch) *)
(* tuples lexicographically, CbLess below).  A day is its index in         *)
(* list(Day); a room is <<pool, i>> for the strings "R<i>" and "LAB<i>",   *)
(* so room_id.startswith("LAB") is room[1] = "LAB".  ScheduleEntry keeps   *)
(* every field a guard or a check reads; student_count is carried by no    *)
(* condition of the code and is left out.                                  *)
(***************************************************************************)
EXTENDS Naturals, Integers, Sequences, FiniteSets, TLC

\* ------------------------------------------------------------------ bounds
\* Bounds of the explored inputs.
MaxCourses == 2
MaxStudents == 1
MaxEntries == 5
MaxRecordLen == 3
MaxBatches == 10
MaxIterations == 3
MaxMoves == 2

\* ------------------------------------------------------ program constants
NumWeekdays == 5
FirstHour == 10
EndHour == 18
NumRegularRoomsCA == 28
NumRegularRooms == 21
NumLabRooms == 7
Theory4 == 4
Theory3 == 3
Lab2 == 2
HardPenalty == 100
SoftPenalty == 20
CoveragePct == 95
MinDaysCap == 3
MaxDailyLoad == 6

\* --------------------------------------------------------------- helpers
Min(a, b) == IF a < b THEN a ELSE b
Max(a, b) == IF a > b THEN a ELSE b

RECURSIVE SumFun(_)
\* sum of the values of a function with a finite domain
SumFun(f) ==
    IF DOMAIN f = {} THEN 0
    ELSE LET x == CHOOSE y \in DOMAIN f : TRUE
         IN f[x] + SumFun([y \in DOMAIN f \ {x} |-> f[y]])

RECURSIVE Concat(_)
\* concatenation of a sequence of sequences
Concat(ss) == IF ss = <<>> THEN <<>> ELSE Head(ss) \o Concat(Tail(ss))

RECURSIVE SortedIndex(_, _)
\* the positions 1..n of keys in ascending key order, equal keys in input order
SortedIndex(keys, n) ==
    IF n = 0 THEN <<>>
    ELSE LET r == SortedIndex(keys, n - 1)
             m == Cardinality({i \in 1..Len(r) : keys[r[i]] <= keys[n]})
         IN SubSeq(r, 1, m) \o <<n>> \o SubSeq(r, m + 1, Len(r))

\* Python's sorted(items, key=...) with keys[i] the key of items[i]: stable
Sorted(items, keys) ==
    LET idx == SortedIndex(keys, Len(items)) IN [k \in 1..Len(items) |-> items[idx[k]]]

RECURSIVE Distinct(_)
\* a sequence without its later duplicates: the key order of a Python dict
Distinct(s) ==
    IF s = <<>> THEN <<>>
    ELSE LET r == Distinct(SubSeq(s, 1, Len(s) - 1))
             x == s[Len(s)]
         IN IF \E i \in 1..Len(r) : r[i] = x THEN r ELSE Append(r, x)

Range(s) == {s[i] : i \in 1..Len(s)}

\* Python's tuple order on (course, batch)
CbLess(a, b) == a[1] < b[1] \/ (a[1] = b[1] /\ a[2] < b[2])

\* ------------------------------------------------------------ data model
Day == 1..NumWeekdays

theory_hours(course) == IF course.course_type = "THEORY_4HR" THEN Theory4 ELSE Theory3
lab_hours(course) == IF course.course_type = "THEORY_4HR" THEN 0 ELSE Lab2
total_hours(course) == theory_hours(course) + lab_hours(course)

\* course.teacher_assignments.get(batch_id, "TBA")
TeacherOf(course, batch_id) ==
    IF batch_id \in DOMAIN course.teacher_assignments
    THEN course.teacher_assignments[batch_id] ELSE "TBA"

\* SchedulingConfig.generate_all_time_slots: days in config order, hours ascending
generate_all_time_slots(cfg) ==
    Concat([d \in 1..Len(cfg.days) |->
              [k \in 1..Max(0, cfg.end_hour - cfg.start_hour) |->
                 <<cfg.days[d], cfg.start_hour + k - 1>>]])

ScheduleEntry(code, batch, teacher, room, slot, stype) ==
    [course_code |-> code, batch_id |-> batch, teacher_name |-> teacher,
     room_id |-> room, day |-> slot[1], hour |-> slot[2], session_type |-> stype]

EntryCb(e) == <<e.course_code, e.batch_id>>
EntrySlot(e) == <<e.day, e.hour>>

\* ------------------------------------------------- student overlap index
\* for i, cb1 in enumerate(cbs): for cb2 in cbs[i+1:]
PairOccurrences(enr) ==
    UNION {{<<s, p[1], p[2]>> :
              p \in {q \in (1..Len(enr[s])) \X (1..Len(enr[s])) : q[1] < q[2]}} :
           s \in 1..Len(enr)}

\* key = (cb1, cb2) if cb1 < cb2 else (cb2, cb1)
PairKey(cb1, cb2) == IF CbLess(cb1, cb2) THEN <<cb1, cb2>> ELSE <<cb2, cb1>>

\* the (cb1, cb2) of one step of the two nested loops
PairAt(enr, o) == <<enr[o[1]][o[2]], enr[o[1]][o[3]]>>

\* dict.get(key, default)
Get(dict, key, default) == IF key \in DOMAIN dict THEN dict[key] ELSE default

\* ConflictAwarePlanner.pair_student_count: key -> number of times the pair was
\* met, for the keys that were met
LoadPairStudentCount(enr) ==
    LET keys == {PairKey(PairAt(enr, o)[1], PairAt(enr, o)[2]) : o \in PairOccurrences(enr)}
    IN [key \in keys |->
          Cardinality({o \in PairOccurrences(enr) :
                         PairKey(PairAt(enr, o)[1], PairAt(enr, o)[2]) = key})]

\* student_conflicts[cb1].add(cb2); student_conflicts[cb2].add(cb1)
LoadStudentConflicts(enr) ==
    LET met == UNION {{PairAt(enr, o)[1], PairAt(enr, o)[2]} : o \in PairOccurrences(enr)}
    IN [cb \in met |->
          {c \in met : \E o \in PairOccurrences(enr) :
                          PairAt(enr, o) = <<cb, c>> \/ PairAt(enr, o) = <<c, cb>>}]

\* conflict_count[cb] = sum of pair_student_count over student_conflicts[cb]
LoadConflictCount(sc, psc) ==
    [cb \in DOMAIN sc |-> SumFun([c \in sc[cb] |-> psc[PairKey(cb, c)]])]

\* StudentConflictMatrix._load_conflicts: the same adjacency, without counts
LoadConflicts(enr) ==
    LET met == UNION {{PairAt(enr, o)[1], PairAt(enr, o)[2]} : o \in PairOccurrences(enr)}
    IN [cb \in met |->
          {c \in met : \E o \in PairOccurrences(enr) :
                          PairAt(enr, o) = <<cb, c>> \/ PairAt(enr, o) = <<c, cb>>}]

VARIABLES
    \* inputs of a run
    courses, teachers, config, strategy, enrollments,
    \* which planner runs, its position, the call number
    mode, pc, run,
    \* ConflictAwarePlanner fields
    student_conflicts, pair_student_count, conflict_count,
    \* StudentConflictMatrix fields
    conflicts, slot_schedule,
    \* locals of ConflictAwarePlanner.generate_proposal
    sessions_to_schedule, gi, hi, slot_courses, room_schedule,
    total_conflicts, scheduled_count,
    \* locals of PlannerAgent._schedule_optimized and the repair pass
    teacher_schedule, sorted_courses, wi,
    regular_room_schedule, lab_room_schedule,
    \* ToolBasedPlannerAgent: what the last tool call was given and returned
    tool_result,
    \* SchedulingOrchestrator.run: the loop counter, the results so far, the best
    iteration, results, best_proposal, best_score,
    \* RefinementAgent.apply_refinements: the moves given, the number applied
    moves, applied,
    unscheduled, ui, filtered_entries, new_entries,
    \* the proposal, the proposal of the previous call, the verifier's result
    entries, prev_entries, vresult

inputVars == <<courses, teachers, config, strategy, enrollments>>
indexVars == <<student_conflicts, pair_student_count, conflict_count, conflicts>>
caVars == <<sessions_to_schedule, gi, hi, slot_courses, room_schedule,
            total_conflicts, scheduled_count>>
strictVars == <<sorted_courses, wi, regular_room_schedule, lab_room_schedule,
                slot_schedule>>
repairVars == <<unscheduled, ui, filtered_entries, new_entries>>
agentVars == <<tool_result, iteration, results, best_proposal, best_score, moves,
               applied>>
vars == <<inputVars, agentVars, mode, pc, run, indexVars, caVars, strictVars, repairVars,
          teacher_schedule, entries, prev_entries, vresult>>

NoSlot == <<0, 0>>
\* no tool call made yet
NoToolResult == [name |-> "none"]
NoRoom == <<"None", 0>>
\* best_proposal = None
NoProposal == <<ScheduleEntry(0, 0, "None", NoRoom, NoSlot, "None")>>

\* ------------------------------------------------------ occupancy queries
\* a teacher lookup that finds every teacher free (fault injection for the
\* double-booking property)
TeacherNeverBusy(schedule, teacher, slot) == FALSE

\* teacher in teacher_schedule[(day, hour)]
TeacherBusy(schedule, teacher, slot) == <<slot[1], slot[2], teacher>> \in schedule

\* a room search that looks at the first room of the pool only (fault
\* injection for the maximal-coverage property)
FirstRoomOnly(slot, rooms, schedule) ==
    IF <<slot[1], slot[2], rooms[1]>> \notin schedule THEN rooms[1] ELSE NoRoom

\* the first room of the pool whose (day, hour, room) flag is unset, or NoRoom
FirstFreeRoom(slot, rooms, schedule) ==
    LET free == {i \in 1..Len(rooms) : <<slot[1], slot[2], rooms[i]>> \notin schedule}
    IN IF free = {} THEN NoRoom
       ELSE rooms[CHOOSE i \in free : \A j \in free : i <= j]

\* --------------------------------------------- conflict-aware scheduler
\* regular_rooms = R1..R28, lab_rooms = LAB1..LAB7
regular_rooms_ca == [i \in 1..NumRegularRoomsCA |-> <<"R", i>>]
\* a lab pool that is the regular pool (fault injection for the room-pool
\* property)
OnePool == regular_rooms_ca

lab_rooms == [i \in 1..NumLabRooms |-> <<"LAB", i>>]

\* for day in list(Day): for hour in range(10, 18)
GridSlots ==
    Concat([d \in 1..NumWeekdays |->
              [k \in 1..(EndHour - FirstHour) |-> <<d, FirstHour + k - 1>>]])

\* the session groups of one course-batch, theory before lab
SessionGroups(course, batch_id, cc) ==
    (IF theory_hours(course) > 0
     THEN <<[course |-> course.code, batch |-> batch_id, type |-> "theory",
             hours |-> theory_hours(course),
             teacher |-> TeacherOf(course, batch_id),
             conflicts |-> Get(cc, <<course.code, batch_id>>, 0)]>>
     ELSE <<>>) \o
    (IF lab_hours(course) > 0
     THEN <<[course |-> course.code, batch |-> batch_id, type |-> "lab",
             hours |-> lab_hours(course),
             teacher |-> TeacherOf(course, batch_id),
             conflicts |-> Get(cc, <<course.code, batch_id>>, 0)]>>
     ELSE <<>>)

\* the list built from courses.items() and course.batches, before the sort
ExpandSessions(cs, cc) ==
    Concat([i \in 1..Len(cs) |->
              Concat([b \in 1..Len(cs[i].batches) |->
                        SessionGroups(cs[i], cs[i].batches[b], cc)])])

\* the session groups left in input order (fault injection for the ordering
\* property)
UnsortedSessions(s) == s

\* sessions_to_schedule.sort(key=lambda x: -x["conflicts"])
SortByConflicts(s) == Sorted(s, [i \in 1..Len(s) |-> 0 - s[i].conflicts])

\* a cost function that sees no shared student anywhere (fault injection for
\* the running-total property)
NoSlotConflicts(slot, cb, sc, psc, placed) == 0

\* the students double-booked by placing cb at slot
count_slot_conflicts(slot, cb, sc, psc, placed) ==
    SumFun([scheduled_cb \in
              {c \in Get(sc, cb, {}) : <<slot[1], slot[2], c>> \in placed} |->
              Get(psc, PairKey(cb, scheduled_cb), 0)])

RECURSIVE ScanLastBest(_, _, _, _, _)
\* a scan in which a later candidate of equal cost replaces the best so far
\* (fault injection for the tie-break property)
ScanLastBest(k, best, cb, teacher, rooms) ==
    IF k > Len(GridSlots) THEN best
    ELSE LET slot == GridSlots[k]
             c == count_slot_conflicts(slot, cb, student_conflicts,
                                       pair_student_count, slot_courses)
             room == FirstFreeRoom(slot, rooms, room_schedule)
             found == [slot |-> slot, room |-> room, conflicts |-> c]
         IN IF TeacherBusy(teacher_schedule, teacher, slot) \/ room = NoRoom
            THEN ScanLastBest(k + 1, best, cb, teacher, rooms)
            ELSE IF best.slot = NoSlot \/ c <= best.conflicts
                 THEN IF c = 0 THEN found
                      ELSE ScanLastBest(k + 1, found, cb, teacher, rooms)
                 ELSE ScanLastBest(k + 1, best, cb, teacher, rooms)

RECURSIVE ScanBestSlot(_, _, _, _, _)
\* the loop of find_best_slot from grid position k on, with the best so far
ScanBestSlot(k, best, cb, teacher, rooms) ==
    IF k > Len(GridSlots) THEN best
    ELSE LET slot == GridSlots[k]
             c == count_slot_conflicts(slot, cb, student_conflicts,
                                       pair_student_count, slot_courses)
             room == FirstFreeRoom(slot, rooms, room_schedule)
             found == [slot |-> slot, room |-> room, conflicts |-> c]
         IN IF TeacherBusy(teacher_schedule, teacher, slot) \/ room = NoRoom
            THEN ScanBestSlot(k + 1, best, cb, teacher, rooms)
            ELSE IF best.slot = NoSlot \/ c < best.conflicts
                 THEN IF c = 0 THEN found
                      ELSE ScanBestSlot(k + 1, found, cb, teacher, rooms)
                 ELSE ScanBestSlot(k + 1, best, cb, teacher, rooms)

\* a search that takes the first slot with a free teacher and a free room,
\* whatever it costs (fault injection for the minimum-cost property)
find_first_candidate(cb, teacher, rooms) ==
    LET free == {k \in 1..Len(GridSlots) :
                   /\ ~TeacherBusy(teacher_schedule, teacher, GridSlots[k])
                   /\ FirstFreeRoom(GridSlots[k], rooms, room_schedule) # NoRoom}
        first == CHOOSE k \in free : \A j \in free : k <= j
    IN IF free = {} THEN [slot |-> NoSlot, room |-> NoRoom, conflicts |-> 0]
       ELSE [slot |-> GridSlots[first],
             room |-> FirstFreeRoom(GridSlots[first], rooms, room_schedule),
             conflicts |-> count_slot_conflicts(GridSlots[first], cb, student_conflicts,
                                                pair_student_count, slot_courses)]

\* best_slot = None, best_conflict_count = inf, then the scan
find_best_slot(cb, teacher, rooms) ==
    ScanBestSlot(1, [slot |-> NoSlot, room |-> NoRoom, conflicts |-> 0],
                 cb, teacher, rooms)

\* a call that keeps the teacher occupancy of the call before it (fault
\* injection for the determinism property)
StaleTeacherSchedule == teacher_schedule

\* teacher_schedule = defaultdict(set) at the start of a call
FreshTeacherSchedule == {}

\* generate_proposal up to the scheduling loop: fresh tracking structures, the
\* sorted session groups; the print of sessions_to_schedule[0] raises IndexError
\* on an empty list
CAGenerate ==
    /\ mode = "CA" /\ pc = "start"
    /\ entries' = <<>>
    /\ teacher_schedule' = FreshTeacherSchedule
    /\ room_schedule' = {}
    /\ slot_courses' = {}
    /\ sessions_to_schedule' = SortByConflicts(ExpandSessions(courses, conflict_count))
    /\ total_conflicts' = 0
    /\ scheduled_count' = 0
    /\ gi' = 1
    /\ hi' = 0
    /\ pc' = IF sessions_to_schedule' = <<>> THEN "raised" ELSE "place"
    /\ UNCHANGED <<inputVars, agentVars, mode, run, indexVars, strictVars, repairVars,
                   prev_entries, vresult>>

\* one iteration of "for _ in range(hours_needed)" for the current session group
CAPlace ==
    /\ mode = "CA" /\ pc = "place" /\ gi <= Len(sessions_to_schedule)
    /\ LET session == sessions_to_schedule[gi]
           cb == <<session.course, session.batch>>
           rooms == IF session.type = "lab" THEN lab_rooms ELSE regular_rooms_ca
           best == find_best_slot(cb, session.teacher, rooms)
           day == best.slot[1]
           hour == best.slot[2]
       IN IF best.slot = NoSlot
          THEN /\ gi' = gi + 1
               /\ hi' = 0
               /\ UNCHANGED <<entries, teacher_schedule, room_schedule, slot_courses,
                              total_conflicts, scheduled_count>>
          ELSE /\ entries' = Append(entries,
                     ScheduleEntry(session.course, session.batch, session.teacher,
                                   best.room, best.slot,
                                   IF session.type = "lab" THEN "Lab" ELSE "Theory"))
               /\ teacher_schedule' = teacher_schedule \cup {<<day, hour, session.teacher>>}
               /\ room_schedule' = room_schedule \cup {<<day, hour, best.room>>}
               /\ slot_courses' = slot_courses \cup {<<day, hour, cb>>}
               /\ total_conflicts' = total_conflicts + best.conflicts
               /\ scheduled_count' = scheduled_count + 1
               /\ IF hi + 1 >= session.hours
                  THEN gi' = gi + 1 /\ hi' = 0
                  ELSE gi' = gi /\ hi' = hi + 1
    /\ UNCHANGED <<inputVars, agentVars, mode, pc, run, indexVars, sessions_to_schedule,
                   strictVars, repairVars, prev_entries, vresult>>

\* every group processed: the proposal is returned
CAReturn ==
    /\ mode = "CA" /\ pc = "place" /\ gi > Len(sessions_to_schedule)
    /\ pc' = "done"
    /\ UNCHANGED <<inputVars, agentVars, mode, run, indexVars, caVars, strictVars, repairVars,
                   teacher_schedule, entries, prev_entries, vresult>>

\* ------------------------------------- strict (consecutive-lab) planner
\* regular_rooms = R1..R21 (lab_rooms as above)
regular_rooms == [i \in 1..NumRegularRooms |-> <<"R", i>>]

\* a student check that accepts every slot (fault injection for the
\* student-conflict property)
AlwaysAvailable(cb, slot, schedule, cf) == TRUE

\* StudentConflictMatrix.check_slot_available
check_slot_available(cb, slot, schedule, cf) ==
    ~\E scheduled_cb \in Get(cf, cb, {}) : <<slot[1], slot[2], scheduled_cb>> \in schedule

\* sorted(courses.values(), key=lambda c: -(c.total_hours * len(c.batches)))
SortCourses(cs) ==
    Sorted(cs, [i \in 1..Len(cs) |-> 0 - (total_hours(cs[i]) * Len(cs[i].batches))])

\* the (course, batch) positions in the order the two nested loops visit them
WorkList(cs) ==
    Concat([i \in 1..Len(cs) |-> [b \in 1..Len(cs[i].batches) |-> <<i, b>>]])

\* sorted(all_slots, key=(list(Day).index(s.day), s.hour))
LabSlots(cfg) ==
    LET all == generate_all_time_slots(cfg)
    IN Sorted(all, [i \in 1..Len(all) |-> (all[i][1] - 1) * 100 + all[i][2]])

\* sorted(all_slots, key=(list(Day).index(s.day), s.hour if morning_theory else -s.hour))
TheorySlots(cfg, morning_theory) ==
    LET all == generate_all_time_slots(cfg)
    IN Sorted(all, [i \in 1..Len(all) |->
                      (all[i][1] - 1) * 100
                      + (IF morning_theory THEN all[i][2] ELSE 0 - all[i][2])])

\* the first later slot on the same day one hour on, or NoSlot
ConsecutiveSlot(slots, i) ==
    LET js == {j \in (i + 1)..Len(slots) :
                 slots[j][1] = slots[i][1] /\ slots[j][2] = slots[i][2] + 1}
    IN IF js = {} THEN NoSlot ELSE slots[CHOOSE j \in js : \A k \in js : j <= k]

\* the first lab room free at both hours, or NoRoom
FirstRoomFreeBoth(slot1, slot2, rooms, schedule) ==
    LET free == {i \in 1..Len(rooms) :
                   /\ <<slot1[1], slot1[2], rooms[i]>> \notin schedule
                   /\ <<slot2[1], slot2[2], rooms[i]>> \notin schedule}
    IN IF free = {} THEN NoRoom
       ELSE rooms[CHOOSE i \in free : \A j \in free : i <= j]

\* one entry appended and the three occupancy maps marked
PlaceEntry(st, code, batch, teacher, room, slot, stype) ==
    [entries |-> Append(st.entries, ScheduleEntry(code, batch, teacher, room, slot, stype)),
     ts |-> st.ts \cup {<<slot[1], slot[2], teacher>>},
     rs |-> st.rs \cup {<<slot[1], slot[2], room>>},
     ss |-> st.ss \cup {<<slot[1], slot[2], <<code, batch>>>>}]

RECURSIVE LabLoop(_, _, _, _)
\* while i < len(lab_slots) - 1 and lab_scheduled < course.lab_hours (i counts from 1)
LabLoop(i, lab_scheduled, st, c) ==
    IF ~(i <= Len(c.slots) - 1 /\ lab_scheduled < c.lab_hours) THEN st
    ELSE LET slot1 == c.slots[i]
             slot2 == ConsecutiveSlot(c.slots, i)
             lab_room == FirstRoomFreeBoth(slot1, slot2, lab_rooms, st.rs)
         IN IF slot2 = NoSlot THEN LabLoop(i + 1, lab_scheduled, st, c)
            ELSE IF TeacherBusy(st.ts, c.teacher, slot1) \/ TeacherBusy(st.ts, c.teacher, slot2)
            THEN LabLoop(i + 1, lab_scheduled, st, c)
            ELSE IF ~check_slot_available(c.cb, slot1, st.ss, c.cf)
                    \/ ~check_slot_available(c.cb, slot2, st.ss, c.cf)
            THEN LabLoop(i + 1, lab_scheduled, st, c)
            ELSE IF lab_room = NoRoom THEN LabLoop(i + 1, lab_scheduled, st, c)
            ELSE LabLoop(i + 2, lab_scheduled + 2,
                         PlaceEntry(PlaceEntry(st, c.cb[1], c.cb[2], c.teacher,
                                               lab_room, slot1, "Lab"),
                                    c.cb[1], c.cb[2], c.teacher, lab_room, slot2, "Lab"),
                         c)

RECURSIVE TheoryLoop(_, _, _, _)
\* for slot in theory_slots, until theory_scheduled reaches course.theory_hours
TheoryLoop(k, theory_scheduled, st, c) ==
    IF k > Len(c.slots) \/ theory_scheduled >= c.theory_hours THEN st
    ELSE LET slot == c.slots[k]
             room == FirstFreeRoom(slot, regular_rooms, st.rs)
         IN IF TeacherBusy(st.ts, c.teacher, slot)
            THEN TheoryLoop(k + 1, theory_scheduled, st, c)
            ELSE IF ~check_slot_available(c.cb, slot, st.ss, c.cf)
            THEN TheoryLoop(k + 1, theory_scheduled, st, c)
            ELSE IF room = NoRoom THEN TheoryLoop(k + 1, theory_scheduled, st, c)
            ELSE TheoryLoop(k + 1, theory_scheduled + 1,
                            PlaceEntry(st, c.cb[1], c.cb[2], c.teacher, room, slot, "Theory"),
                            c)

\* the course-batch the main pass is at
CurrentCourse == sorted_courses[WorkList(sorted_courses)[wi][1]]
CurrentBatch == CurrentCourse.batches[WorkList(sorted_courses)[wi][2]]

\* a call that keeps the slot contents of the call before it (fault injection
\* for the fresh-occupancy property)
KeptSlotSchedule == slot_schedule

\* StudentConflictMatrix.reset_schedule: self.slot_schedule.clear()
reset_schedule == {}

\* generate_proposal up to the main pass: reset_schedule, the strategy, fresh
\* occupancy, the courses in descending total-hours order
StrictGenerate ==
    /\ mode = "STRICT" /\ pc = "start"
    /\ slot_schedule' = reset_schedule
    /\ entries' = <<>>
    /\ teacher_schedule' = {}
    /\ regular_room_schedule' = {}
    /\ lab_room_schedule' = {}
    /\ sorted_courses' = SortCourses(courses)
    /\ wi' = 1
    /\ pc' = IF WorkList(sorted_courses') = <<>> THEN "find" ELSE "labs"
    /\ UNCHANGED <<inputVars, agentVars, mode, run, indexVars, caVars, repairVars,
                   prev_entries, vresult>>

\* the lab part of one course-batch: consecutive two-hour blocks in one lab room
ScheduleLabs ==
    /\ mode = "STRICT" /\ pc = "labs"
    /\ LET course == CurrentCourse
           st == LabLoop(1, 0,
                    [entries |-> entries, ts |-> teacher_schedule,
                     rs |-> lab_room_schedule, ss |-> slot_schedule],
                    [cb |-> <<course.code, CurrentBatch>>,
                     teacher |-> TeacherOf(course, CurrentBatch),
                     lab_hours |-> lab_hours(course),
                     slots |-> LabSlots(config), cf |-> conflicts])
       IN IF lab_hours(course) > 0
          THEN /\ entries' = st.entries
               /\ teacher_schedule' = st.ts
               /\ lab_room_schedule' = st.rs
               /\ slot_schedule' = st.ss
          ELSE UNCHANGED <<entries, teacher_schedule, lab_room_schedule, slot_schedule>>
    /\ pc' = "theory"
    /\ UNCHANGED <<inputVars, agentVars, mode, run, indexVars, caVars, repairVars,
                   sorted_courses, wi, regular_room_schedule, prev_entries, vresult>>

\* the theory part of one course-batch, then the next course-batch
ScheduleTheory ==
    /\ mode = "STRICT" /\ pc = "theory"
    /\ LET course == CurrentCourse
           st == TheoryLoop(1, 0,
                    [entries |-> entries, ts |-> teacher_schedule,
                     rs |-> regular_room_schedule, ss |-> slot_schedule],
                    [cb |-> <<course.code, CurrentBatch>>,
                     teacher |-> TeacherOf(course, CurrentBatch),
                     theory_hours |-> theory_hours(course),
                     slots |-> TheorySlots(config, strategy.morning_theory),
                     cf |-> conflicts])
       IN /\ entries' = st.entries
          /\ teacher_schedule' = st.ts
          /\ regular_room_schedule' = st.rs
          /\ slot_schedule' = st.ss
    /\ wi' = wi + 1
    /\ pc' = IF wi + 1 > Len(WorkList(sorted_courses)) THEN "find" ELSE "labs"
    /\ UNCHANGED <<inputVars, agentVars, mode, run, indexVars, caVars, repairVars,
                   sorted_courses, lab_room_schedule, prev_entries, vresult>>

\* ------------------------------------------------------------ GapRepair
CountEntries(es, cb, stype) ==
    Cardinality({i \in 1..Len(es) : EntryCb(es[i]) = cb /\ es[i].session_type = stype})

\* a shortfall search that reports every course-batch (fault injection for the
\* frame property of the repair pass)
AllUnscheduled(es, cs) ==
    Concat([i \in 1..Len(cs) |->
      [b \in 1..Len(cs[i].batches) |->
         [course |-> cs[i].code, batch |-> cs[i].batches[b],
          theory_missing |-> theory_hours(cs[i]), lab_missing |-> lab_hours(cs[i]),
          original_teacher |-> TeacherOf(cs[i], cs[i].batches[b])]]])

\* PlannerAgent._find_unscheduled: the course-batches with a shortfall, in
\* courses.items() and course.batches order
find_unscheduled(es, cs) ==
    Concat([i \in 1..Len(cs) |->
      Concat([b \in 1..Len(cs[i].batches) |->
        LET cb == <<cs[i].code, cs[i].batches[b]>>
            theory_missing == theory_hours(cs[i]) - CountEntries(es, cb, "Theory")
            lab_missing == lab_hours(cs[i]) - CountEntries(es, cb, "Lab")
        IN IF theory_missing > 0 \/ lab_missing > 0
           THEN <<[course |-> cb[1], batch |-> cb[2],
                   theory_missing |-> theory_missing, lab_missing |-> lab_missing,
                   original_teacher |-> TeacherOf(cs[i], cb[2])]>>
           ELSE <<>>])])

\* courses_to_reassign
CoursesToReassign(items) == {<<items[i].course, items[i].batch>> : i \in 1..Len(items)}

\* a repair that keeps the entries of the course-batches it reassigns (fault
\* injection for the all-or-nothing property)
KeepEntries(es, items) == es

\* filtered_entries: the entries of the course-batches that keep their teacher
FilterEntries(es, items) ==
    SelectSeq(es, LAMBDA e : EntryCb(e) \notin CoursesToReassign(items))

\* the occupancy rebuilt from the remaining entries
RebuiltTeacherSchedule(es) == {<<es[i].day, es[i].hour, es[i].teacher_name>> : i \in 1..Len(es)}
RebuiltLabRooms(es) ==
    {<<es[i].day, es[i].hour, es[i].room_id>> :
       i \in {j \in 1..Len(es) : es[j].room_id[1] = "LAB"}}
RebuiltRegularRooms(es) ==
    {<<es[i].day, es[i].hour, es[i].room_id>> :
       i \in {j \in 1..Len(es) : es[j].room_id[1] # "LAB"}}

\* teacher_hours[teacher] += course.total_hours over every teacher assignment
TeacherHours(cs, teacher) ==
    SumFun([i \in 1..Len(cs) |->
              total_hours(cs[i]) *
              Cardinality({b \in DOMAIN cs[i].teacher_assignments :
                             cs[i].teacher_assignments[b] = teacher})])

\* sorted(teachers.keys(), key=lambda t: teacher_hours[t])
AvailableTeachers(ts, cs) == Sorted(ts, [i \in 1..Len(ts) |-> TeacherHours(cs, ts[i])])

CourseByCode(cs, code) == cs[CHOOSE i \in 1..Len(cs) : cs[i].code = code]

RECURSIVE PotentialSlots(_, _, _, _, _)
\* the theory slots alt_teacher could take, at most theory_needed of them
PotentialSlots(k, potential, alt_teacher, cb, theory_needed) ==
    LET all_slots == generate_all_time_slots(config)
    IN IF k > Len(all_slots) \/ Len(potential) >= theory_needed THEN potential
       ELSE LET slot == all_slots[k]
                room == FirstFreeRoom(slot, regular_rooms, regular_room_schedule)
            IN IF TeacherBusy(teacher_schedule, alt_teacher, slot)
               THEN PotentialSlots(k + 1, potential, alt_teacher, cb, theory_needed)
               ELSE IF room # NoRoom
                       /\ check_slot_available(cb, slot, slot_schedule, conflicts)
               THEN PotentialSlots(k + 1, Append(potential, <<slot, room>>),
                                   alt_teacher, cb, theory_needed)
               ELSE PotentialSlots(k + 1, potential, alt_teacher, cb, theory_needed)

\* the position in available_teachers of the teacher the loop commits, or 0
ChosenTeacher(item) ==
    LET available == AvailableTeachers(teachers, courses)
        needed == theory_hours(CourseByCode(courses, item.course))
        able == {j \in 1..Len(available) :
                   /\ available[j] # item.original_teacher
                   /\ Len(PotentialSlots(1, <<>>, available[j],
                                         <<item.course, item.batch>>, needed)) >= needed}
    IN IF able = {} THEN 0 ELSE CHOOSE j \in able : \A k \in able : j <= k

\* the sessions committed for a reassigned course-batch: potential_slots[:theory_needed]
SessionsToCommit(potential, theory_needed) == SubSeq(potential, 1, theory_needed)

RECURSIVE CommitSlots(_, _, _, _)
\* an entry per committed session under alt_teacher, the occupancy marked
CommitSlots(potential, st, cb, alt_teacher) ==
    IF potential = <<>> THEN st
    ELSE CommitSlots(Tail(potential),
                     PlaceEntry(st, cb[1], cb[2], alt_teacher,
                                Head(potential)[2], Head(potential)[1], "Theory"),
                     cb, alt_teacher)

\* _find_unscheduled, then the start of _fix_with_teacher_reassignment: the
\* entries of every course-batch with a shortfall are dropped and the teacher
\* and room occupancy rebuilt from the remaining ones
RepairBegin ==
    /\ mode = "STRICT" /\ pc = "find"
    /\ unscheduled' = find_unscheduled(entries, courses)
    /\ IF unscheduled' = <<>>
       THEN /\ pc' = "done"
            /\ UNCHANGED <<filtered_entries, new_entries, ui, teacher_schedule,
                           regular_room_schedule, lab_room_schedule>>
       ELSE /\ pc' = "repair"
            /\ filtered_entries' = FilterEntries(entries, unscheduled')
            /\ teacher_schedule' = RebuiltTeacherSchedule(filtered_entries')
            /\ regular_room_schedule' = RebuiltRegularRooms(filtered_entries')
            /\ lab_room_schedule' = RebuiltLabRooms(filtered_entries')
            /\ new_entries' = <<>>
            /\ ui' = 1
    /\ UNCHANGED <<inputVars, agentVars, mode, run, indexVars, caVars, sorted_courses, wi,
                   slot_schedule, entries, prev_entries, vresult>>

\* one item of "for item in unscheduled": the least-loaded other teacher who can
\* take the sessions gets them, or the course-batch stays without entries
RepairItem ==
    /\ mode = "STRICT" /\ pc = "repair" /\ ui <= Len(unscheduled)
    /\ LET item == unscheduled[ui]
           cb == <<item.course, item.batch>>
           available == AvailableTeachers(teachers, courses)
           theory_needed == theory_hours(CourseByCode(courses, item.course))
           j == ChosenTeacher(item)
           st == CommitSlots(
                    SessionsToCommit(
                        PotentialSlots(1, <<>>, available[j], cb, theory_needed),
                        theory_needed),
                    [entries |-> new_entries, ts |-> teacher_schedule,
                     rs |-> regular_room_schedule, ss |-> slot_schedule],
                    cb, available[j])
       IN IF j = 0
          THEN UNCHANGED <<new_entries, teacher_schedule, regular_room_schedule,
                           slot_schedule>>
          ELSE /\ new_entries' = st.entries
               /\ teacher_schedule' = st.ts
               /\ regular_room_schedule' = st.rs
               /\ slot_schedule' = st.ss
    /\ ui' = ui + 1
    /\ UNCHANGED <<inputVars, agentVars, mode, pc, run, indexVars, caVars, sorted_courses, wi,
                   lab_room_schedule, unscheduled, filtered_entries, entries,
                   prev_entries, vresult>>

\* return filtered_entries + new_entries
RepairReturn ==
    /\ mode = "STRICT" /\ pc = "repair" /\ ui > Len(unscheduled)
    /\ entries' = filtered_entries \o new_entries
    /\ pc' = "done"
    /\ UNCHANGED <<inputVars, agentVars, mode, run, indexVars, caVars, strictVars, repairVars,
                   teacher_schedule, prev_entries, vresult>>

\* --------------------------------------------------------------- verifier
\* A violation record: its type and severity, and what it is about (the
\* description and entries strings of the code carry the same data).
Violation(type, severity, cb, slot, teacher, room, count) ==
    [type |-> type, severity |-> severity, course |-> cb[1], batch |-> cb[2],
     day |-> slot[1], hour |-> slot[2], teacher |-> teacher, room |-> room,
     count |-> count]

\* VerificationAgent._check_teacher_conflicts
check_teacher_conflicts(es) ==
    LET slot_keys == Distinct([i \in 1..Len(es) |-> EntrySlot(es[i])])
        at(key) == SelectSeq(es, LAMBDA e : EntrySlot(e) = key)
        teachers_at(key) == Distinct([i \in 1..Len(at(key)) |-> at(key)[i].teacher_name])
        n(key, t) == Cardinality({i \in 1..Len(es) :
                        EntrySlot(es[i]) = key /\ es[i].teacher_name = t})
    IN Concat([k \in 1..Len(slot_keys) |->
         Concat([j \in 1..Len(teachers_at(slot_keys[k])) |->
           LET t == teachers_at(slot_keys[k])[j]
           IN IF n(slot_keys[k], t) > 1
              THEN <<Violation("teacher_conflict", "hard", <<0, 0>>, slot_keys[k],
                               t, NoRoom, n(slot_keys[k], t))>>
              ELSE <<>>])])

\* VerificationAgent._check_room_conflicts
check_room_conflicts(es) ==
    LET keys == Distinct([i \in 1..Len(es) |-> <<es[i].day, es[i].hour, es[i].room_id>>])
        n(key) == Cardinality({i \in 1..Len(es) :
                     <<es[i].day, es[i].hour, es[i].room_id>> = key})
    IN Concat([k \in 1..Len(keys) |->
         IF n(keys[k]) > 1
         THEN <<Violation("room_conflict", "hard", <<0, 0>>,
                          <<keys[k][1], keys[k][2]>>, "", keys[k][3], n(keys[k]))>>
         ELSE <<>>])

\* VerificationAgent._check_coverage
check_coverage(es, cs) ==
    Concat([i \in 1..Len(cs) |->
      Concat([b \in 1..Len(cs[i].batches) |->
        LET cb == <<cs[i].code, cs[i].batches[b]>>
            theory_missing == theory_hours(cs[i]) - CountEntries(es, cb, "Theory")
            lab_missing == lab_hours(cs[i])
                           - Cardinality({k \in 1..Len(es) :
                                EntryCb(es[k]) = cb /\ es[k].session_type # "Theory"})
        IN (IF theory_missing > 0
            THEN <<Violation("incomplete_coverage", "hard", cb, NoSlot, "theory",
                             NoRoom, theory_missing)>>
            ELSE <<>>) \o
           (IF lab_missing > 0
            THEN <<Violation("incomplete_coverage", "hard", cb, NoSlot, "lab",
                             NoRoom, lab_missing)>>
            ELSE <<>>)])])

\* VerificationAgent._check_time_bounds
check_time_bounds(es, cfg) ==
    Concat([i \in 1..Len(es) |->
      (IF es[i].day \notin Range(cfg.days)
       THEN <<Violation("invalid_day", "hard", EntryCb(es[i]), EntrySlot(es[i]),
                        "", NoRoom, 0)>>
       ELSE <<>>) \o
      (IF es[i].hour < cfg.start_hour \/ es[i].hour >= cfg.end_hour
       THEN <<Violation("invalid_time", "hard", EntryCb(es[i]), EntrySlot(es[i]),
                        "", NoRoom, 0)>>
       ELSE <<>>)])

\* VerificationAgent._check_soft_constraints
check_soft_constraints(es, cs) ==
    LET cbs == Distinct([i \in 1..Len(es) |-> EntryCb(es[i])])
        days_of(cb) == {es[i].day : i \in {j \in 1..Len(es) : EntryCb(es[j]) = cb}}
        known(cb) == \E i \in 1..Len(cs) : cs[i].code = cb[1]
        names == Distinct([i \in 1..Len(es) |-> es[i].teacher_name])
        of(t) == SelectSeq(es, LAMBDA e : e.teacher_name = t)
        days_taught(t) == Distinct([i \in 1..Len(of(t)) |-> of(t)[i].day])
        load(t, d) == Cardinality({i \in 1..Len(es) :
                         es[i].teacher_name = t /\ es[i].day = d})
    IN Concat([k \in 1..Len(cbs) |->
         IF known(cbs[k])
            /\ Cardinality(days_of(cbs[k]))
               < Min(total_hours(CourseByCode(cs, cbs[k][1])), MinDaysCap)
         THEN <<Violation("poor_distribution", "soft", cbs[k], NoSlot, "", NoRoom,
                          Cardinality(days_of(cbs[k])))>>
         ELSE <<>>]) \o
       Concat([k \in 1..Len(names) |->
         Concat([j \in 1..Len(days_taught(names[k])) |->
           LET d == days_taught(names[k])[j]
           IN IF load(names[k], d) > MaxDailyLoad
              THEN <<Violation("teacher_overload", "soft", <<0, 0>>, <<d, 0>>,
                               names[k], NoRoom, load(names[k], d))>>
              ELSE <<>>])])

\* total_required = sum(c.total_hours * len(c.batches) for c in courses.values())
TotalRequired(cs) == SumFun([i \in 1..Len(cs) |-> total_hours(cs[i]) * Len(cs[i].batches)])

\* score = max(0.0, min(1.0, 1.0 - 0.1 * hard - 0.02 * soft)), in thousandths
ClampedScore(hard, soft) == Max(0, Min(1000, 1000 - hard * HardPenalty - soft * SoftPenalty))

\* round(score * coverage, 3) in thousandths; coverage is 0 when nothing is required
ScaledScore(base, placed, required) ==
    IF required > 0 THEN (2 * base * placed + required) \div (2 * required) ELSE 0

\* coverage >= 0.95, with coverage = placed / required, or 0 when nothing is required
CoverageReached(placed, required) ==
    required > 0 /\ 100 * placed >= CoveragePct * required

\* hard_conflict_count == 0 and coverage >= 0.95
IsValid(hard_conflict_count, placed, required) ==
    hard_conflict_count = 0 /\ CoverageReached(placed, required)

\* VerificationAgent.verify.  score is in thousandths; the VerificationResult
\* model declares score with ge=0.0 and le=1.0, so its constructor raises a
\* ValidationError for a score outside [0, 1] and verify returns nothing.
\* a conflict list that starts from the records of the call before (fault
\* injection for the purity property)
CarriedConflicts == vresult.conflicts

\* conflicts = []: the list every call of verify starts from
NewConflictList == <<>>

verify(es, cs, cfg) ==
    LET found == NewConflictList
                 \o check_teacher_conflicts(es) \o check_room_conflicts(es)
                 \o check_coverage(es, cs) \o check_time_bounds(es, cfg)
        soft_issues == check_soft_constraints(es, cs)
        hard_conflict_count == Len(SelectSeq(found, LAMBDA c : c.severity = "hard"))
        soft_conflict_count == Len(soft_issues)
        score == ScaledScore(ClampedScore(hard_conflict_count, soft_conflict_count),
                             Len(es), TotalRequired(cs))
    IN [raised |-> ~(0 <= score /\ score <= 1000),
        is_valid |-> IsValid(hard_conflict_count, Len(es), TotalRequired(cs)),
        score |-> score,
        conflicts |-> found \o soft_issues]

NoResult == [raised |-> FALSE, is_valid |-> FALSE, score |-> 0, conflicts |-> <<>>]

\* the returned proposal is verified
Verify ==
    /\ pc = "done"
    /\ vresult' = verify(entries, courses, config)
    /\ pc' = "verified"
    /\ UNCHANGED <<inputVars, agentVars, mode, run, indexVars, caVars, strictVars, repairVars,
                   teacher_schedule, entries, prev_entries>>

\* a second call of verify on the same agent, with the same proposal, courses
\* and configuration
VerifyAgain ==
    /\ pc = "verified"
    /\ vresult' = verify(entries, courses, config)
    /\ pc' = "reverified"
    /\ UNCHANGED <<inputVars, agentVars, mode, run, indexVars, caVars, strictVars, repairVars,
                   teacher_schedule, entries, prev_entries>>

\* a second call of generate_proposal on the same planner, with the same inputs
CAAgain ==
    /\ mode = "CA" /\ pc = "verified" /\ run = 1
    /\ prev_entries' = entries
    /\ run' = 2
    /\ pc' = "start"
    /\ UNCHANGED <<inputVars, agentVars, mode, indexVars, caVars, strictVars, repairVars,
                   teacher_schedule, entries, vresult>>

\* ----------------------------------------------------------------- inputs
TeacherNames == <<"T1", "T2", "T3">>

\* the course type and the number of batches a course may have
CourseKinds == {<<"THEORY_4HR", 1>>, <<"THEORY_3HR_LAB_2HR", 1>>, <<"THEORY_4HR", 2>>}

\* a course whose batches B1..Bnb are all taught by one teacher
Course(code, kind, teacher) ==
    [code |-> code, course_type |-> kind[1], batches |-> [b \in 1..kind[2] |-> b],
     teacher_assignments |-> [b \in 1..kind[2] |-> teacher]]

CourseChoices == [kind : CourseKinds, t : 1..Len(TeacherNames)]

\* teachers are numbered in the order they first appear, as the loader keys them
FirstAppearanceOrder(f, n) ==
    \A i \in 1..n : \A t \in 1..(f[i].t - 1) : \E j \in 1..(i - 1) : f[j].t = t

CourseLists ==
    UNION {{[i \in 1..n |-> Course(i, f[i].kind, TeacherNames[f[i].t])] :
              f \in {g \in [1..n -> CourseChoices] : FirstAppearanceOrder(g, n)}} :
           n \in 0..MaxCourses}

\* the teachers dict: the assigned teachers alone, or every teacher name
TeacherLists(cs) ==
    LET used == {k \in 1..Len(TeacherNames) :
                   \E i \in 1..Len(cs) : \E b \in DOMAIN cs[i].teacher_assignments :
                      cs[i].teacher_assignments[b] = TeacherNames[k]}
        last == IF used = {} THEN 1 ELSE CHOOSE k \in used : \A u \in used : u <= k
    IN {SubSeq(TeacherNames, 1, last), TeacherNames}

\* a student's record: the first batches of two of the courses on offer
StudentRecords(cs) ==
    {<<<<cs[p[1]].code, cs[p[1]].batches[1]>>, <<cs[p[2]].code, cs[p[2]].batches[1]>>>> :
       p \in {q \in (1..Len(cs)) \X (1..Len(cs)) : q[1] < q[2]}}

\* the enrollment file: up to MaxStudents classmates with the same record
EnrollmentLists(cs) ==
    {<<>>} \cup {[s \in 1..n |-> r] : n \in 1..MaxStudents, r \in StudentRecords(cs)}

DefaultConfig ==
    [days |-> [d \in 1..NumWeekdays |-> d], start_hour |-> FirstHour, end_hour |-> EndHour]

\* the grids (days, hours per day) and the morning_theory hint the strict
\* planner is run with
StrictRuns == {<<1, 4, TRUE>>, <<2, 3, TRUE>>, <<2, 3, FALSE>>, <<2, 4, TRUE>>}
GridConfig(g) ==
    [days |-> [d \in 1..g[1] |-> d], start_hour |-> FirstHour,
     end_hour |-> FirstHour + g[2]]

\* the course lists the verifier is given: one batch per course (the verifier
\* reads no teacher assignment)
VerifyCourseLists ==
    {cs \in CourseLists :
       \A i \in 1..Len(cs) :
          Len(cs[i].batches) = 1 /\ cs[i].teacher_assignments[1] = TeacherNames[1]}

\* The ScheduleEntry values proposals handed to verify are made of: for course 1
\* a theory hour on each weekday and a lab block in a lab room; for course 2
\* sessions at a slot course 1 uses, with or without its teacher and its room,
\* and a session in the last hour of the last weekday.
EntryPool ==
    [d \in 1..NumWeekdays |->
       ScheduleEntry(1, 1, TeacherNames[1], <<"R", 1>>, <<d, FirstHour>>, "Theory")]
    \o [k \in 1..Lab2 |->
          ScheduleEntry(1, 1, TeacherNames[1], <<"LAB", 1>>, <<1, FirstHour + k>>, "Lab")]
    \o Concat([t \in 1..2 |->
                  [r \in 1..2 |->
                     ScheduleEntry(2, 1, TeacherNames[t], <<"R", r>>,
                                   <<1, FirstHour>>, "Theory")]])
    \o << ScheduleEntry(2, 1, TeacherNames[2], <<"R", 2>>,
                        <<NumWeekdays, EndHour - 1>>, "Theory") >>

\* a configuration without the last weekday and the last hour
ShortWeek ==
    [days |-> [d \in 1..(NumWeekdays - 1) |-> d], start_hour |-> FirstHour,
     end_hour |-> EndHour - 1]

\* the entries of the pool at the positions in S, in pool order
PoolEntries(S) ==
    [k \in 1..Cardinality(S) |->
       EntryPool[CHOOSE i \in S : Cardinality({j \in S : j <= i}) = k]]

\* the proposals handed to verify: at most MaxEntries entries of the pool
Proposals ==
    {PoolEntries(S) : S \in {T \in SUBSET (1..Len(EntryPool)) : Cardinality(T) <= MaxEntries}}

\* the course-batches named in the enrollment file and the records a row may
\* hold: any list of them, repeats included
IndexCbs == {<<1, 1>>, <<1, 2>>, <<2, 1>>}
Records == UNION {[1..n -> IndexCbs] : n \in 0..MaxRecordLen}
RecordLists == UNION {[1..n -> Records] : n \in 0..MaxStudents}

\* ------------------------------------------------------------ the system
InitLocals ==
    /\ sessions_to_schedule = <<>> /\ gi = 1 /\ hi = 0
    /\ slot_courses = {} /\ room_schedule = {}
    /\ total_conflicts = 0 /\ scheduled_count = 0
    /\ teacher_schedule = {} /\ sorted_courses = <<>> /\ wi = 1
    /\ regular_room_schedule = {} /\ lab_room_schedule = {}
    /\ slot_schedule = {}
    /\ unscheduled = <<>> /\ ui = 1 /\ filtered_entries = <<>> /\ new_entries = <<>>
    /\ prev_entries = <<>> /\ vresult = NoResult
    /\ tool_result = NoToolResult
    /\ iteration = 0 /\ results = <<>> /\ best_proposal = NoProposal /\ best_score = 0 - 1000
    /\ moves = <<>> /\ applied = 0

\* the planners after construction, for every input drawn from the bounded sets
Init ==
    /\ courses \in CourseLists
    /\ mode \in {"CA", "STRICT"}
    /\ teachers \in (IF mode = "CA" THEN {TeacherNames} ELSE TeacherLists(courses))
    /\ enrollments \in EnrollmentLists(courses)
    /\ \E g \in (IF mode = "CA" THEN {<<0, 0, TRUE>>} ELSE StrictRuns) :
          /\ config = (IF mode = "CA" THEN DefaultConfig ELSE GridConfig(g))
          /\ strategy = [morning_theory |-> g[3]]
    /\ pc = "start" /\ run = 1
    /\ student_conflicts = LoadStudentConflicts(enrollments)
    /\ pair_student_count = LoadPairStudentCount(enrollments)
    /\ conflict_count = LoadConflictCount(student_conflicts, pair_student_count)
    /\ conflicts = LoadConflicts(enrollments)
    /\ entries = <<>>
    /\ InitLocals

Next ==
    \/ CAGenerate \/ CAPlace \/ CAReturn \/ CAAgain
    \/ StrictGenerate \/ ScheduleLabs \/ ScheduleTheory
    \/ RepairBegin \/ RepairItem \/ RepairReturn
    \/ Verify

Spec == Init /\ [][Next]_vars

\* ----------------------------------- two calls on one planner instance
\* a second call of PlannerAgent.generate_proposal on the same instance, with
\* the same inputs and the same strategy
StrictAgain ==
    /\ mode = "STRICT" /\ pc = "verified" /\ run = 1
    /\ prev_entries' = entries
    /\ run' = 2
    /\ pc' = "start"
    /\ UNCHANGED <<inputVars, agentVars, mode, indexVars, caVars, strictVars, repairVars,
                   teacher_schedule, entries, vresult>>

\* the inputs of Init with the full teachers dict
InitRerun == Init /\ teachers = TeacherNames

NextRerun == Next \/ StrictAgain

SpecRerun == InitRerun /\ [][NextRerun]_vars

\* RefinementAgent.calculate_conflicts: for every (day, hour), over every pair
\* of entries at earlier and later positions, pair_student_count.get(key, 0)
calculate_conflicts(es, psc) ==
    SumFun([p \in {q \in (1..Len(es)) \X (1..Len(es)) :
                     q[1] < q[2] /\ EntrySlot(es[q[1]]) = EntrySlot(es[q[2]])} |->
              Get(psc, PairKey(EntryCb(es[p[1]]), EntryCb(es[p[2]])), 0)])

\* ------------------------------- the conflict-aware scheduler on a full week
\* A timetable that fills the week of one teacher: course 1 (one batch, T2),
\* course 2 (n batches of four theory hours, all T1), course 3 (one batch,
\* T1) and course 4 (one batch, T3); every batch of course 2 has a student who
\* also takes course 1, and one student takes courses 1 and 3.
CrowdedCourses(n, kind) ==
    << Course(1, <<"THEORY_4HR", 1>>, TeacherNames[2]),
       Course(2, <<"THEORY_4HR", n>>, TeacherNames[1]),
       Course(3, <<kind, 1>>, TeacherNames[1]),
       Course(4, <<"THEORY_4HR", 1>>, TeacherNames[3]) >>

CrowdedEnrollments(n) ==
    [s \in 1..n |-> << <<2, s>>, <<1, 1>> >>] \o << << <<1, 1>>, <<3, 1>> >> >>

InitCrowded ==
    /\ \E n \in (MaxBatches - 1)..MaxBatches :
          /\ \E kind \in {"THEORY_4HR", "THEORY_3HR_LAB_2HR"} :
                courses = CrowdedCourses(n, kind)
          /\ enrollments = CrowdedEnrollments(n)
    /\ mode = "CA" /\ pc = "start" /\ run = 1
    /\ teachers = TeacherNames
    /\ config = DefaultConfig /\ strategy = [morning_theory |-> TRUE]
    /\ student_conflicts = LoadStudentConflicts(enrollments)
    /\ pair_student_count = LoadPairStudentCount(enrollments)
    /\ conflict_count = LoadConflictCount(student_conflicts, pair_student_count)
    /\ conflicts = LoadConflicts(enrollments)
    /\ entries = <<>>
    /\ InitLocals

NextCrowded == CAGenerate \/ CAPlace \/ CAReturn

SpecCrowded == InitCrowded /\ [][NextCrowded]_vars

\* --------------------------------------------------- the tool-based planner
\* The arguments the model's caller passes to the tools: a day of day_map (1)
\* or a string that is no day (0), an hour inside or outside 10..17, two
\* teachers, three rooms, either session type.
ToolArgs ==
    [day : {0, 1}, hour : {FirstHour - 1, FirstHour},
     teacher : {TeacherNames[1], TeacherNames[2]},
     room : {<<"R", 1>>, <<"R", 2>>, <<"LAB", 1>>},
     session_type : {"theory", "lab"}]

\* ToolBasedPlannerAgent._check_slot: the teacher stored for (day, hour) is the
\* one asked for, or the room is occupied
check_slot(args) ==
    IF \E x \in teacher_schedule :
          x[1] = args.day /\ x[2] = args.hour /\ x[3] = args.teacher
    THEN FALSE
    ELSE <<args.day, args.hour, args.room>> \notin room_schedule

\* self.teacher_schedule[(day, hour)] = teacher: the value of the key is replaced
StoreTeacher(schedule, day, hour, teacher) ==
    {x \in schedule : ~(x[1] = day /\ x[2] = hour)} \cup {<<day, hour, teacher>>}

\* generate_proposal up to the tool conversation: reset_state
ToolGenerate ==
    /\ mode = "TOOL" /\ pc = "start"
    /\ entries' = <<>>
    /\ teacher_schedule' = {}
    /\ room_schedule' = {}
    /\ pc' = "tools"
    /\ UNCHANGED <<inputVars, tool_result, iteration, results, best_proposal, best_score,
                   moves, applied, mode, run, indexVars, sessions_to_schedule, gi, hi,
                   slot_courses, total_conflicts, scheduled_count, strictVars,
                   repairVars, prev_entries, vresult>>

\* the model calls check_slot_available
CheckSlot ==
    /\ mode = "TOOL" /\ pc = "tools"
    /\ \E args \in ToolArgs :
          tool_result' = [name |-> "check_slot_available", day |-> args.day,
                          hour |-> args.hour, teacher |-> args.teacher,
                          room |-> args.room, ok |-> check_slot(args)]
    /\ UNCHANGED <<inputVars, iteration, results, best_proposal, best_score, moves, applied,
                   mode, pc, run, indexVars, caVars, strictVars, repairVars,
                   teacher_schedule, entries, prev_entries, vresult>>

\* the model calls assign_slot: the hour is validated, the slot checked, the
\* day looked up, then the entry is appended and the two maps are marked
AssignSlot ==
    /\ mode = "TOOL" /\ pc = "tools"
    /\ \E args \in ToolArgs :
          LET success == /\ ~(args.hour < FirstHour \/ args.hour > EndHour - 1)
                         /\ check_slot(args)
                         /\ args.day \in 1..NumWeekdays
          IN /\ tool_result' = [name |-> "assign_slot", day |-> args.day,
                                 hour |-> args.hour, teacher |-> args.teacher,
                                 room |-> args.room, ok |-> success]
             /\ IF success
                THEN /\ entries' = Append(entries,
                           ScheduleEntry(1, 1, args.teacher, args.room,
                                         <<args.day, args.hour>>,
                                         IF args.session_type = "lab" THEN "Lab"
                                         ELSE "Theory"))
                     /\ teacher_schedule' =
                           StoreTeacher(teacher_schedule, args.day, args.hour, args.teacher)
                     /\ room_schedule' =
                           room_schedule \cup {<<args.day, args.hour, args.room>>}
                ELSE UNCHANGED <<entries, teacher_schedule, room_schedule>>
    /\ UNCHANGED <<inputVars, iteration, results, best_proposal, best_score, moves, applied,
                   mode, pc, run, indexVars, sessions_to_schedule, gi, hi,
                   slot_courses, total_conflicts, scheduled_count, strictVars,
                   repairVars, prev_entries, vresult>>

\* the conversation ends: the proposal holds self.scheduled_entries
ToolReturn ==
    /\ mode = "TOOL" /\ pc = "tools"
    /\ pc' = "done"
    /\ UNCHANGED <<inputVars, agentVars, mode, run, indexVars, caVars, strictVars,
                   repairVars, teacher_schedule, entries, prev_entries, vresult>>

InitTool ==
    /\ mode = "TOOL" /\ pc = "start" /\ run = 1
    /\ courses = <<Course(1, <<"THEORY_3HR_LAB_2HR", 1>>, TeacherNames[1])>>
    /\ teachers = TeacherNames /\ enrollments = <<>>
    /\ config = DefaultConfig /\ strategy = [morning_theory |-> TRUE]
    /\ student_conflicts = <<>> /\ pair_student_count = <<>>
    /\ conflict_count = <<>> /\ conflicts = <<>>
    /\ entries = <<>>
    /\ InitLocals

NextTool == ToolGenerate \/ CheckSlot \/ AssignSlot \/ ToolReturn

SpecTool == InitTool /\ [][NextTool]_vars

\* ------------------------------------------------- the orchestration loop
\* The proposals the planner of the loop may hand back for one course of four
\* theory hours: the hours on four days; the four hours on one day; the four
\* days with the Monday session entered twice; one session; none.
LoopProposals ==
    LET e(d, h) == ScheduleEntry(1, 1, TeacherNames[1], <<"R", 1>>, <<d, h>>, "Theory")
    IN { [d \in 1..Theory4 |-> e(d, FirstHour)],
         [h \in 1..Theory4 |-> e(1, FirstHour + h - 1)],
         <<e(1, FirstHour)>> \o [d \in 1..Theory4 |-> e(d, FirstHour)],
         <<e(1, FirstHour)>>,
         <<>> }

\* one pass of "for iteration in range(self.max_iterations)": a proposal is
\* generated and verified, the best score is tracked, a valid result ends the loop
OrchIterate ==
    /\ mode = "ORCH" /\ pc = "loop" /\ iteration < MaxIterations
    /\ \E proposal \in LoopProposals :
          LET result == verify(proposal, courses, config)
          IN /\ entries' = proposal
             /\ vresult' = result
             /\ results' = Append(results, result)
             /\ IF result.score > best_score
                THEN best_score' = result.score /\ best_proposal' = proposal
                ELSE UNCHANGED <<best_score, best_proposal>>
             /\ pc' = IF result.is_valid THEN "after" ELSE "loop"
    /\ iteration' = iteration + 1
    /\ UNCHANGED <<inputVars, tool_result, moves, applied, mode, run, indexVars, caVars,
                   strictVars, repairVars, teacher_schedule, prev_entries>>

\* after the loop: the best proposal, or the last one when there is no best
OrchReturn ==
    /\ mode = "ORCH"
    /\ pc = "after" \/ (pc = "loop" /\ iteration >= MaxIterations)
    /\ best_proposal' = IF best_proposal = NoProposal THEN entries ELSE best_proposal
    /\ pc' = "returned"
    /\ UNCHANGED <<inputVars, tool_result, iteration, results, best_score, moves, applied,
                   mode, run, indexVars, caVars, strictVars, repairVars,
                   teacher_schedule, entries, prev_entries, vresult>>

InitOrch ==
    /\ mode = "ORCH" /\ pc = "loop" /\ run = 1
    /\ courses = <<Course(1, <<"THEORY_4HR", 1>>, TeacherNames[1])>>
    /\ teachers = TeacherNames /\ enrollments = <<>>
    /\ config = DefaultConfig /\ strategy = [morning_theory |-> TRUE]
    /\ student_conflicts = <<>> /\ pair_student_count = <<>>
    /\ conflict_count = <<>> /\ conflicts = <<>>
    /\ entries = <<>>
    /\ InitLocals

NextOrch == OrchIterate \/ OrchReturn

SpecOrch == InitOrch /\ [][NextOrch]_vars

\* ------------------------------------------------- RefinementAgent
\* TimeSlot.hour: int = Field(ge=10, le=17): a TimeSlot with another hour is
\* rejected at construction
MinSlotHour == 10
MaxSlotHour == 17
TimeSlotValid(hour) == hour >= MinSlotHour /\ hour <= MaxSlotHour

\* the occupancy maps built from the entries; a map (day, hour) -> set of names
\* is the set of triples <<day, hour, name>>
RefineTeachers(es) == {<<es[i].day, es[i].hour, es[i].teacher_name>> : i \in 1..Len(es)}
RefineRooms(es) == {<<es[i].day, es[i].hour, es[i].room_id>> : i \in 1..Len(es)}

\* the pool an alternative room is looked for in: LAB1..LAB7 for a room whose
\* id starts with "LAB", R1..R28 otherwise
RoomPool(room_id) == IF room_id[1] = "LAB" THEN lab_rooms ELSE regular_rooms_ca

\* the first room of the pool that is free at the slot, NoRoom when none is
AltRoom(room_id, slot, rs) ==
    LET pool == RoomPool(room_id)
        free == {r \in 1..Len(pool) : <<slot[1], slot[2], pool[r]>> \notin rs}
    IN IF free = {} THEN NoRoom
       ELSE pool[CHOOSE r \in free : \A q \in free : r <= q]

\* "for i, entry in enumerate(entries)" of one move, from entry i on: entries
\* of another course-batch, entries whose teacher is busy at the new slot and
\* entries with no free room of their pool are passed over; the first other
\* entry is moved and ends the loop. The new TimeSlot is built after the
\* occupancy maps are updated, so a rejected hour leaves the call by exception.
RECURSIVE MoveEntry(_, _, _)
MoveEntry(st, move, i) ==
    IF i > Len(st.entries) THEN st
    ELSE LET entry == st.entries[i]
             new == move.to
             room_to_use == IF <<new[1], new[2], entry.room_id>> \in st.rs
                            THEN AltRoom(entry.room_id, new, st.rs)
                            ELSE entry.room_id
         IN IF EntryCb(entry) # move.target THEN MoveEntry(st, move, i + 1)
            ELSE IF <<new[1], new[2], entry.teacher_name>> \in st.ts
                 THEN MoveEntry(st, move, i + 1)
            ELSE IF room_to_use = NoRoom THEN MoveEntry(st, move, i + 1)
            ELSE IF ~TimeSlotValid(new[2]) THEN [st EXCEPT !.raised = TRUE]
            ELSE [entries |-> [st.entries EXCEPT ![i] =
                                 ScheduleEntry(entry.course_code, entry.batch_id,
                                               entry.teacher_name, room_to_use, new,
                                               entry.session_type)],
                  ts |-> (st.ts \ {<<entry.day, entry.hour, entry.teacher_name>>})
                            \cup {<<new[1], new[2], entry.teacher_name>>},
                  rs |-> (st.rs \ {<<entry.day, entry.hour, entry.room_id>>})
                            \cup {<<new[1], new[2], room_to_use>>},
                  applied |-> st.applied + 1,
                  raised |-> FALSE]

\* "for move in moves": a move whose day names no weekday (day 0) is passed over
RECURSIVE MoveLoop(_, _)
MoveLoop(st, ms) ==
    IF ms = <<>> \/ st.raised THEN st
    ELSE MoveLoop(IF Head(ms).to[1] = 0 THEN st ELSE MoveEntry(st, Head(ms), 1),
                  Tail(ms))

apply_refinements(es, ms) ==
    MoveLoop([entries |-> es, ts |-> RefineTeachers(es), rs |-> RefineRooms(es),
              applied |-> 0, raised |-> FALSE], ms)

\* The entries the refined proposals are made of: two theory hours of course 1
\* in R1, a theory hour of course 2 in R1, a lab hour of each in LAB1; no
\* teacher and no room twice at a (day, hour).
RefineBase ==
    << ScheduleEntry(1, 1, "T1", <<"R", 1>>, <<1, FirstHour>>, "Theory"),
       ScheduleEntry(1, 1, "T1", <<"R", 1>>, <<1, FirstHour + 1>>, "Theory"),
       ScheduleEntry(2, 1, "T2", <<"R", 1>>, <<2, FirstHour>>, "Theory"),
       ScheduleEntry(2, 1, "T2", <<"LAB", 1>>, <<1, FirstHour>>, "Lab"),
       ScheduleEntry(1, 1, "T1", <<"LAB", 1>>, <<2, FirstHour + 1>>, "Lab") >>

RECURSIVE Pick(_, _)
Pick(es, S) ==
    IF es = <<>> THEN <<>>
    ELSE (IF Len(RefineBase) - Len(es) + 1 \in S THEN <<Head(es)>> ELSE <<>>)
            \o Pick(Tail(es), S)

RefineProposals == {Pick(RefineBase, S) : S \in SUBSET (1..Len(RefineBase))}

\* The moves a suggestion may hold: a course-batch and a slot whose day is a
\* weekday or no day (0) and whose hour is any integer the text parses to.
RefineMoves ==
    [target : {<<1, 1>>, <<2, 1>>},
     to : {<<0, FirstHour>>, <<1, FirstHour>>, <<1, FirstHour + 1>>,
           <<2, FirstHour>>, <<2, FirstHour + 1>>, <<1, EndHour>>}]

RECURSIVE MoveLists(_)
MoveLists(n) ==
    IF n = 0 THEN {<<>>}
    ELSE MoveLists(n - 1) \cup
         {Append(ms, m) : ms \in {l \in MoveLists(n - 1) : Len(l) = n - 1}, m \in RefineMoves}

\* RefinementAgent.apply_refinements as called by iterative_refinement
\* ("if moves:"): the refined proposal and the number of applied moves are
\* returned, or the call is left by the exception of a rejected TimeSlot
ApplyRefinements ==
    /\ mode = "REFINE" /\ pc = "refine"
    /\ \E ms \in MoveLists(MaxMoves) \ {<<>>} :
          LET st == apply_refinements(entries, ms)
          IN /\ moves' = ms
             /\ prev_entries' = entries
             /\ IF st.raised
                THEN pc' = "raised" /\ UNCHANGED <<entries, applied>>
                ELSE pc' = "refined" /\ entries' = st.entries /\ applied' = st.applied
    /\ UNCHANGED <<inputVars, tool_result, iteration, results, best_proposal, best_score,
                   mode, run, indexVars, caVars, strictVars, repairVars,
                   teacher_schedule, vresult>>

InitRefine ==
    /\ mode = "REFINE" /\ pc = "refine" /\ run = 1
    /\ courses = <<>> /\ teachers = TeacherNames /\ enrollments = <<>>
    /\ config = DefaultConfig /\ strategy = [morning_theory |-> TRUE]
    /\ student_conflicts = <<>> /\ pair_student_count = <<>>
    /\ conflict_count = <<>> /\ conflicts = <<>>
    /\ entries \in RefineProposals
    /\ InitLocals

NextRefine == ApplyRefinements

SpecRefine == InitRefine /\ [][NextRefine]_vars

\* ------------------------------------ both planners on a grid of their caller
\* generate_proposal with a configuration other than the default one: a week
\* without its last day and last hour, or a single day of four hours
InitGrid ==
    /\ courses \in CourseLists
    /\ mode \in {"CA", "STRICT"}
    /\ teachers = TeacherNames
    /\ enrollments = <<>>
    /\ config \in {ShortWeek, GridConfig(<<1, 4, TRUE>>)}
    /\ strategy = [morning_theory |-> TRUE]
    /\ pc = "start" /\ run = 1
    /\ student_conflicts = LoadStudentConflicts(enrollments)
    /\ pair_student_count = LoadPairStudentCount(enrollments)
    /\ conflict_count = LoadConflictCount(student_conflicts, pair_student_count)
    /\ conflicts = LoadConflicts(enrollments)
    /\ entries = <<>>
    /\ InitLocals

SpecGrid == InitGrid /\ [][Next]_vars

\* ------------------------------------------- the verifier on any proposal
\* VerificationAgent.verify applied to every proposal of Proposals
InitVerify ==
    /\ courses \in VerifyCourseLists
    /\ entries \in Proposals
    /\ mode = "VERIFY" /\ pc = "done" /\ run = 1
    /\ teachers = TeacherNames /\ enrollments = <<>>
    /\ config \in {DefaultConfig, ShortWeek} /\ strategy = [morning_theory |-> TRUE]
    /\ student_conflicts = LoadStudentConflicts(enrollments)
    /\ pair_student_count = LoadPairStudentCount(enrollments)
    /\ conflict_count = LoadConflictCount(student_conflicts, pair_student_count)
    /\ conflicts = LoadConflicts(enrollments)
    /\ InitLocals

NextVerify == Verify

SpecVerify == InitVerify /\ [][NextVerify]_vars

\* verify called twice on the proposals of the default week
InitVerifyTwice == InitVerify /\ config = DefaultConfig

NextVerifyTwice == Verify \/ VerifyAgain

SpecVerifyTwice == InitVerifyTwice /\ [][NextVerifyTwice]_vars

\* ---------------------------------- the overlap index on any enrollment file
\* ConflictAwarePlanner.__init__: the empty dicts, then _load_student_conflicts
LoadPlannerIndex ==
    /\ mode = "INDEX" /\ pc \in {"new", "matrix"}
    /\ student_conflicts' = LoadStudentConflicts(enrollments)
    /\ pair_student_count' = LoadPairStudentCount(enrollments)
    /\ conflict_count' = LoadConflictCount(student_conflicts', pair_student_count')
    /\ pc' = IF pc = "new" THEN "planner" ELSE "loaded"
    /\ UNCHANGED <<inputVars, agentVars, mode, run, conflicts, caVars, strictVars, repairVars,
                   teacher_schedule, entries, prev_entries, vresult>>

\* StudentConflictMatrix.__init__: the empty dicts, then _load_conflicts
LoadMatrix ==
    /\ mode = "INDEX" /\ pc \in {"new", "planner"}
    /\ conflicts' = LoadConflicts(enrollments)
    /\ slot_schedule' = {}
    /\ pc' = IF pc = "new" THEN "matrix" ELSE "loaded"
    /\ UNCHANGED <<inputVars, agentVars, mode, run, student_conflicts, pair_student_count,
                   conflict_count, caVars, sorted_courses, wi, regular_room_schedule,
                   lab_room_schedule, repairVars, teacher_schedule, entries,
                   prev_entries, vresult>>

InitIndex ==
    /\ enrollments \in RecordLists
    /\ mode = "INDEX" /\ pc = "new" /\ run = 1
    /\ courses = <<>> /\ teachers = TeacherNames
    /\ config = DefaultConfig /\ strategy = [morning_theory |-> TRUE]
    /\ student_conflicts = <<>> /\ pair_student_count = <<>>
    /\ conflict_count = <<>> /\ conflicts = <<>>
    /\ entries = <<>>
    /\ InitLocals

NextIndex == LoadPlannerIndex \/ LoadMatrix

SpecIndex == InitIndex /\ [][NextIndex]_vars

\* ================================================================ properties
Returned == pc \in {"done", "verified"}

\* the entries of one course-batch, in proposal order
EntriesOf(es, cb) == SelectSeq(es, LAMBDA e : EntryCb(e) = cb)

\* every course-batch of the course list
AllCbs(cs) == UNION {{<<cs[i].code, cs[i].batches[b]>> : b \in 1..Len(cs[i].batches)} :
                     i \in 1..Len(cs)}

NoDoubleBooking(es) ==
    \A i, j \in 1..Len(es) :
       (i < j /\ EntrySlot(es[i]) = EntrySlot(es[j]))
       => (es[i].teacher_name # es[j].teacher_name /\ es[i].room_id # es[j].room_id)

\* C1: in the proposal returned by the conflict-aware scheduler, and in the one
\* returned by the strict planner after its repair pass, no two entries of one
\* (day, hour) have the same teacher and no two have the same room.
C1_NoDoubleBooking ==
    (mode \in {"CA", "STRICT"} /\ Returned) => NoDoubleBooking(entries)

\* a repaired strict proposal in which two entries share a (day, hour)
C1_Witness ==
    /\ mode = "STRICT" /\ pc = "done" /\ new_entries # <<>>
    /\ \E i, j \in 1..Len(entries) : i < j /\ EntrySlot(entries[i]) = EntrySlot(entries[j])

\* C2: in every produced proposal every Lab entry has another Lab entry of the
\* same course-batch on the same day, in the same room, at an adjacent hour.
C2_LabBlocks ==
    (mode \in {"CA", "STRICT"} /\ Returned) =>
       \A i \in 1..Len(entries) :
          entries[i].session_type = "Lab" =>
             \E j \in 1..Len(entries) :
                /\ entries[j].session_type = "Lab"
                /\ EntryCb(entries[j]) = EntryCb(entries[i])
                /\ entries[j].day = entries[i].day
                /\ entries[j].room_id = entries[i].room_id
                /\ (entries[j].hour = entries[i].hour + 1
                    \/ entries[j].hour + 1 = entries[i].hour)

\* C3: the repair pass leaves every course-batch with at least as many Theory
\* and as many Lab entries as it had before, and a course-batch no other
\* teacher takes keeps exactly the entries it had.
C3_RepairKeepsCoverage ==
    [][(pc = "repair" /\ pc' = "done") =>
         \A cb \in AllCbs(courses) :
            /\ CountEntries(entries', cb, "Theory") >= CountEntries(entries, cb, "Theory")
            /\ CountEntries(entries', cb, "Lab") >= CountEntries(entries, cb, "Lab")
            /\ (\A k \in 1..Len(new_entries) : EntryCb(new_entries[k]) # cb)
                  => EntriesOf(entries', cb) = EntriesOf(entries, cb)]_vars

\* C4: a course-batch the repair pass commits to a replacement teacher ends
\* with exactly theory_hours Theory entries and lab_hours Lab entries.
C4_CommitCoversAll ==
    (mode = "STRICT" /\ Returned) =>
       \A k \in 1..Len(new_entries) :
          LET cb == EntryCb(new_entries[k])
              course == CourseByCode(courses, cb[1])
          IN /\ CountEntries(entries, cb, "Theory") = theory_hours(course)
             /\ CountEntries(entries, cb, "Lab") = lab_hours(course)

\* C5: for every proposal and course set the verifier returns a result whose
\* score is in [0, 1] (0..1000 thousandths), also when the proposal has more
\* entries than the sessions required.
C5_ScoreInUnitInterval ==
    pc = "verified" => (~vresult.raised /\ 0 <= vresult.score /\ vresult.score <= 1000)

HardCount(found) == Len(SelectSeq(found, LAMBDA c : c.severity = "hard"))

\* C6: the verifier returns is_valid = True exactly when there is no hard
\* violation and placed entries / required sessions is at least 0.95.
C6_ValidIff ==
    pc = "verified" =>
       ((~vresult.raised /\ vresult.is_valid)
        <=> (HardCount(vresult.conflicts) = 0
             /\ CoverageReached(Len(entries), TotalRequired(courses))))

\* C7: for a proposal in which a course-batch has fewer Theory or fewer Lab
\* entries than required, the verifier reports a hard incomplete-coverage
\* violation for that course-batch and returns is_valid = False.
C7_ShortfallRejected ==
    pc = "verified" =>
       \A i \in 1..Len(courses) : \A b \in 1..Len(courses[i].batches) :
          LET cb == <<courses[i].code, courses[i].batches[b]>>
          IN (CountEntries(entries, cb, "Theory") < theory_hours(courses[i])
              \/ CountEntries(entries, cb, "Lab") < lab_hours(courses[i]))
             => /\ ~vresult.raised
                /\ ~vresult.is_valid
                /\ \E k \in 1..Len(vresult.conflicts) :
                      /\ vresult.conflicts[k].type = "incomplete_coverage"
                      /\ vresult.conflicts[k].severity = "hard"
                      /\ vresult.conflicts[k].course = cb[1]
                      /\ vresult.conflicts[k].batch = cb[2]

Weight(a, b) == Get(pair_student_count, PairKey(a, b), 0)

\* C9: for every list of enrollment records the overlap index is symmetric and
\* has no self-pair: no course-batch in its own adjacency set, weight(a,a) = 0.
C9_SymmetricNoSelfPair ==
    (mode = "INDEX" /\ pc \in {"planner", "loaded"}) =>
       \A a, b \in IndexCbs :
          /\ Weight(a, b) = Weight(b, a)
          /\ (b \in Get(student_conflicts, a, {})) <=> (a \in Get(student_conflicts, b, {}))
          /\ a \notin Get(student_conflicts, a, {})
          /\ Weight(a, a) = 0

OneTeacherPerCb(es) ==
    \A i, j \in 1..Len(es) :
       EntryCb(es[i]) = EntryCb(es[j]) => es[i].teacher_name = es[j].teacher_name

\* C10: a course-batch the repair pass reassigns has all its entries under one
\* teacher, who is not its original teacher, and no proposal, returned or under
\* construction, holds entries of one course-batch under two teachers.
C10_AllOrNothing ==
    mode = "STRICT" =>
       /\ OneTeacherPerCb(entries)
       /\ pc = "repair" => OneTeacherPerCb(filtered_entries \o new_entries)
       /\ Returned =>
             \A k \in 1..Len(new_entries) : \A i \in 1..Len(entries) :
                EntryCb(entries[i]) = EntryCb(new_entries[k]) =>
                   /\ entries[i].teacher_name = new_entries[k].teacher_name
                   /\ entries[i].teacher_name
                        # TeacherOf(CourseByCode(courses, entries[i].course_code),
                                   entries[i].batch_id)

\* a returned proposal holding the entries of a reassigned course-batch
C10_Witness == mode = "STRICT" /\ pc = "done" /\ new_entries # <<>>

\* C11: generate_proposal raises no exception for degenerate input (an empty
\* course set, an empty enrollment list) and returns a proposal.
C11_NoException == pc # "raised"

\* C12: in every produced proposal a Lab entry uses a room of the lab pool and
\* a Theory entry a room of the regular pool, the pools are disjoint, and this
\* holds after the repair pass as well.
C12_RoomPools ==
    (mode \in {"CA", "STRICT"} /\ Returned) =>
       LET regular == IF mode = "CA" THEN regular_rooms_ca ELSE regular_rooms
       IN /\ Range(lab_rooms) \cap Range(regular) = {}
          /\ \A i \in 1..Len(entries) :
                IF entries[i].session_type = "Lab"
                THEN entries[i].room_id[1] = "LAB" /\ entries[i].room_id \in Range(lab_rooms)
                ELSE entries[i].room_id[1] = "R" /\ entries[i].room_id \in Range(regular)

\* a repaired strict proposal that holds Lab entries and replaced Theory entries
C12_Witness ==
    /\ mode = "STRICT" /\ pc = "done" /\ new_entries # <<>>
    /\ \E i \in 1..Len(entries) : entries[i].session_type = "Lab"

\* two different course-batches some student is enrolled in
SharesStudent(a, b) ==
    a # b /\ \E s \in 1..Len(enrollments) :
                a \in Range(enrollments[s]) /\ b \in Range(enrollments[s])

\* C14: in the strict planner's proposal, after the main pass and after the
\* repair pass, no two entries of one (day, hour) belong to course-batches that
\* share a student.
C14_NoStudentClash ==
    (mode = "STRICT" /\ pc \in {"find", "repair", "done", "verified"}) =>
       \A i, j \in 1..Len(entries) :
          EntrySlot(entries[i]) = EntrySlot(entries[j])
          => ~SharesStudent(EntryCb(entries[i]), EntryCb(entries[j]))

\* a repaired proposal in which a reassigned course-batch shares a student
\* with another course-batch of the proposal
C14_Witness ==
    /\ mode = "STRICT" /\ pc = "done"
    /\ \E k \in 1..Len(new_entries) : \E j \in 1..Len(entries) :
          SharesStudent(EntryCb(new_entries[k]), EntryCb(entries[j]))

\* the entry list a run is holding
CurrentEntries ==
    IF mode = "STRICT" /\ pc = "repair" THEN filtered_entries \o new_entries ELSE entries

\* C15: at every point of a run the occupancy maps agree with the current
\* entries: teacher busy, room occupied and course-batch in the slot contents
\* exactly where a current entry says so.
C15_MapsAgree ==
    mode \in {"CA", "STRICT"} =>
       LET es == CurrentEntries
       IN /\ teacher_schedule
               = {<<es[i].day, es[i].hour, es[i].teacher_name>> : i \in 1..Len(es)}
          /\ room_schedule \cup regular_room_schedule \cup lab_room_schedule
               = {<<es[i].day, es[i].hour, es[i].room_id>> : i \in 1..Len(es)}
          /\ slot_courses \cup slot_schedule
               = {<<es[i].day, es[i].hour, EntryCb(es[i])>> : i \in 1..Len(es)}

\* the position in the list groups of the session group of an entry
GroupOf(e, groups) ==
    CHOOSE k \in 1..Len(groups) :
       /\ groups[k].course = e.course_code /\ groups[k].batch = e.batch_id
       /\ groups[k].type = (IF e.session_type = "Lab" THEN "lab" ELSE "theory")

\* for every entry of the proposal, the position of its group in the input
\* expansion
InputPositions ==
    LET groups == ExpandSessions(courses, conflict_count)
    IN [i \in 1..Len(entries) |-> GroupOf(entries[i], groups)]

\* for every entry of the proposal, the weighted degree of its course-batch
Degrees == [i \in 1..Len(entries) |-> Get(conflict_count, EntryCb(entries[i]), 0)]

\* C19: session groups are processed in descending weighted-degree order, ties
\* in input order: every entry of a group of higher degree, or of equal degree
\* and earlier in the input, comes before every entry of the other group.
C19_GroupOrder ==
    (mode = "CA" /\ Returned) =>
       LET g == InputPositions
           d == Degrees
       IN \A i, j \in 1..Len(entries) :
             (d[i] > d[j] \/ (d[i] = d[j] /\ g[i] < g[j])) => i < j

\* a proposal in which a group later in the input was placed before an earlier one
C19_Witness ==
    /\ mode = "CA" /\ pc = "done"
    /\ \E i, j \in 1..Len(entries) :
          i < j /\ InputPositions[i] > InputPositions[j]

\* C13: a second call of generate_proposal on the same planner instance starts
\* from empty occupancy and returns the entries the first call, made on the
\* fresh instance, returned.
C13_FreshOccupancy ==
    (mode \in {"CA", "STRICT"} /\ run = 2) =>
       /\ Returned => entries = prev_entries
       /\ (pc \in {"place", "labs", "theory"} /\ entries = <<>>) =>
             /\ teacher_schedule = {}
             /\ room_schedule = {} /\ slot_courses = {}
             /\ regular_room_schedule = {} /\ lab_room_schedule = {}
             /\ slot_schedule = {}

\* a second call of the strict planner that returned entries for an input
\* with student overlap
C13_Witness ==
    /\ mode = "STRICT" /\ run = 2 /\ pc = "done"
    /\ Len(entries) > 1 /\ enrollments # <<>>

\* the room pool a conflict-aware session of the given entry type draws from
PoolOf(stype) == IF stype = "Lab" THEN lab_rooms ELSE regular_rooms_ca

\* the (day, hour) pairs of the week at which the teacher has no session and
\* some room of the pool has none, in the current occupancy
CandidateSlots(teacher, rooms) ==
    {slot \in (1..NumWeekdays) \X (FirstHour..(EndHour - 1)) :
        /\ <<slot[1], slot[2], teacher>> \notin teacher_schedule
        /\ \E r \in 1..Len(rooms) : <<slot[1], slot[2], rooms[r]>> \notin room_schedule}

\* the number of entries of the proposal that belong to a session group
PlacedHours(g) ==
    Cardinality({i \in 1..Len(entries) :
                   /\ EntryCb(entries[i]) = <<g.course, g.batch>>
                   /\ entries[i].session_type = (IF g.type = "lab" THEN "Lab" ELSE "Theory")})

\* C16: when the conflict-aware scheduler has finished, every session group
\* has been processed, no exception was raised, and for every group with an
\* unplaced hour there is no (day, hour) at which its teacher is free and a
\* room of its pool is free.
C16_MaximalCoverage ==
    /\ (mode = "CA" /\ sessions_to_schedule # <<>>) => pc # "raised"
    /\ (mode = "CA" /\ Returned) =>
          /\ gi = Len(sessions_to_schedule) + 1
          /\ \A k \in 1..Len(sessions_to_schedule) :
                LET g == sessions_to_schedule[k]
                IN PlacedHours(g) < g.hours =>
                      CandidateSlots(g.teacher,
                                     PoolOf(IF g.type = "lab" THEN "Lab" ELSE "Theory")) = {}

\* a finished run that left an hour of some group unplaced, and placed an hour
\* of a group that comes after it
C16_Witness ==
    /\ mode = "CA" /\ pc = "done"
    /\ \E k \in 1..Len(sessions_to_schedule) :
          /\ PlacedHours(sessions_to_schedule[k]) < sessions_to_schedule[k].hours
          /\ \E j \in (k + 1)..Len(sessions_to_schedule) :
                PlacedHours(sessions_to_schedule[j]) > 0

\* the marginal conflict cost of putting cb at slot, given the placements
MarginalCost(slot, cb, placed) ==
    count_slot_conflicts(slot, cb, student_conflicts, pair_student_count, placed)

\* a step of the conflict-aware scheduler that commits one placement
CACommit == mode = "CA" /\ pc = "place" /\ Len(entries') = Len(entries) + 1

\* C17: every committed placement of the conflict-aware scheduler is at a
\* candidate slot whose marginal conflict cost is the minimum over all
\* candidate slots at the moment of commit, and the total conflict grows by
\* exactly that cost (so by zero whenever a zero-cost candidate exists).
C17_MinCostStep ==
    CACommit =>
       LET e == entries'[Len(entries')]
           cands == CandidateSlots(e.teacher_name, PoolOf(e.session_type))
           cost == MarginalCost(EntrySlot(e), EntryCb(e), slot_courses)
       IN /\ EntrySlot(e) \in cands
          /\ \A c \in cands : cost <= MarginalCost(c, EntryCb(e), slot_courses)
          /\ total_conflicts' = total_conflicts + cost
          /\ (\E c \in cands : MarginalCost(c, EntryCb(e), slot_courses) = 0) =>
                total_conflicts' = total_conflicts

C17_MinCost == [][C17_MinCostStep]_vars

\* a finished run in which some placement had no zero-cost candidate
C17_Witness == mode = "CA" /\ pc = "done" /\ total_conflicts > 0

\* canonical order of slots: day in weekday order, then hour ascending
SlotLeq(a, b) == a[1] < b[1] \/ (a[1] = b[1] /\ a[2] <= b[2])

\* C18: the committed slot is the first in canonical order among the
\* candidate slots of minimum marginal cost, and the committed room is the
\* first room of the pool, in pool order, that is free at that slot.
C18_FirstWinsStep ==
    CACommit =>
       LET e == entries'[Len(entries')]
           rooms == PoolOf(e.session_type)
           cands == CandidateSlots(e.teacher_name, rooms)
           cost == MarginalCost(EntrySlot(e), EntryCb(e), slot_courses)
       IN /\ \A c \in cands :
                MarginalCost(c, EntryCb(e), slot_courses) = cost => SlotLeq(EntrySlot(e), c)
          /\ \E r \in 1..Len(rooms) :
                /\ rooms[r] = e.room_id
                /\ <<e.day, e.hour, rooms[r]>> \notin room_schedule
                /\ \A q \in 1..(r - 1) : <<e.day, e.hour, rooms[q]>> \in room_schedule

C18_FirstWins == [][C18_FirstWinsStep]_vars

\* a placement at non-zero cost, in a room that is not the first of the pool,
\* after which a later slot of the same cost is still free for the teacher
C18_Witness ==
    /\ mode = "CA" /\ pc = "place" /\ entries # <<>>
    /\ LET e == entries[Len(entries)]
           rooms == PoolOf(e.session_type)
           before == slot_courses \ {<<e.day, e.hour, EntryCb(e)>>}
           cost == MarginalCost(EntrySlot(e), EntryCb(e), before)
       IN /\ cost > 0
          /\ e.room_id # rooms[1]
          /\ \E c \in CandidateSlots(e.teacher_name, rooms) :
                /\ c # EntrySlot(e) /\ SlotLeq(EntrySlot(e), c)
                /\ MarginalCost(c, EntryCb(e), before) = cost

\* the pairs (h, h+1) of one day of the grid at which the teacher is free in
\* both hours and one single lab room is free in both hours, given the
\* occupancy; a pair is named by its first slot
FreeLabPairs(teacher, slots, ts, rs) ==
    {slot \in Range(slots) :
        /\ <<slot[1], slot[2] + 1>> \in Range(slots)
        /\ <<slot[1], slot[2], teacher>> \notin ts
        /\ <<slot[1], slot[2] + 1, teacher>> \notin ts
        /\ \E r \in 1..Len(lab_rooms) :
              /\ <<slot[1], slot[2], lab_rooms[r]>> \notin rs
              /\ <<slot[1], slot[2] + 1, lab_rooms[r]>> \notin rs}

\* a lab step of the strict planner that appends entries appends one block of
\* two entries, at the first free pair of the occupancy before it at which no
\* course-batch sharing a student is placed
C20_StrictStep ==
    (mode = "STRICT" /\ pc = "labs" /\ entries' # entries) =>
       /\ Len(entries') = Len(entries) + 2
       /\ LET e1 == entries'[Len(entries) + 1]
              e2 == entries'[Len(entries) + 2]
              pairs == FreeLabPairs(e1.teacher_name, generate_all_time_slots(config),
                                    teacher_schedule, lab_room_schedule)
          IN /\ e1.session_type = "Lab" /\ e2.session_type = "Lab"
             /\ e2.day = e1.day /\ e2.hour = e1.hour + 1 /\ e2.room_id = e1.room_id
             /\ <<e1.day, e1.hour, e1.room_id>> \notin lab_room_schedule
             /\ <<e2.day, e2.hour, e2.room_id>> \notin lab_room_schedule
             /\ EntrySlot(e1) \in pairs
             /\ \A q \in pairs :
                   (/\ check_slot_available(EntryCb(e1), q, slot_schedule, conflicts)
                    /\ check_slot_available(EntryCb(e1), <<q[1], q[2] + 1>>,
                                            slot_schedule, conflicts))
                   => SlotLeq(EntrySlot(e1), q)

\* a lab commit of the conflict-aware scheduler opens a block at the first
\* free pair, or closes the block the commit before it opened
C20_CAStep ==
    (CACommit /\ entries'[Len(entries')].session_type = "Lab") =>
       LET e == entries'[Len(entries')]
           pairs == FreeLabPairs(e.teacher_name, GridSlots, teacher_schedule, room_schedule)
       IN IF hi % 2 = 0
          THEN /\ EntrySlot(e) \in pairs
               /\ <<e.day, e.hour, e.room_id>> \notin room_schedule
               /\ <<e.day, e.hour + 1, e.room_id>> \notin room_schedule
               /\ \A q \in pairs : SlotLeq(EntrySlot(e), q)
          ELSE LET e1 == entries[Len(entries)]
               IN /\ e1.session_type = "Lab" /\ EntryCb(e1) = EntryCb(e)
                  /\ e.day = e1.day /\ e.hour = e1.hour + 1 /\ e.room_id = e1.room_id

\* C20: a lab block is committed only at a pair of hours (h, h+1) of one day
\* of the grid, with the teacher free in both hours and one lab room free in
\* both; the pair is the first such pair in (day, hour) order.
C20_LabPairs == [][C20_StrictStep /\ C20_CAStep]_vars
\* the slots of the grid at which a teacher could hold a theory session of cb:
\* the teacher and some regular room are free and no course-batch sharing a
\* student with cb is placed there, given where course-batches are placed
CoverSlots(teacher, cb, placed) ==
    {slot \in Range(generate_all_time_slots(config)) :
        /\ <<slot[1], slot[2], teacher>> \notin teacher_schedule
        /\ \E r \in 1..Len(regular_rooms) :
              <<slot[1], slot[2], regular_rooms[r]>> \notin regular_room_schedule
        /\ \A other \in Get(conflicts, cb, {}) : <<slot[1], slot[2], other>> \notin placed}

\* teacher u comes before teacher t in ascending order of assigned hours, ties
\* in the order of the teachers input
RankedBefore(u, t) ==
    LET pos(x) == CHOOSE i \in 1..Len(teachers) : teachers[i] = x
    IN \/ TeacherHours(courses, u) < TeacherHours(courses, t)
       \/ (TeacherHours(courses, u) = TeacherHours(courses, t) /\ pos(u) < pos(t))

\* where the course-batches with entries are placed during the repair pass
PlacedNow ==
    LET es == filtered_entries \o new_entries
    IN {<<es[i].day, es[i].hour, EntryCb(es[i])>> : i \in 1..Len(es)}

\* one item of the repair pass, with the placement the candidates are judged by
RepairOrderStep(placed) ==
    (mode = "STRICT" /\ pc = "repair" /\ ui <= Len(unscheduled)) =>
       LET item == unscheduled[ui]
           cb == <<item.course, item.batch>>
           needed == theory_hours(CourseByCode(courses, item.course))
           able == {u \in Range(teachers) :
                      /\ u # item.original_teacher
                      /\ Cardinality(CoverSlots(u, cb, placed)) >= needed}
           added == SubSeq(new_entries', Len(new_entries) + 1, Len(new_entries'))
       IN IF able = {}
          THEN new_entries' = new_entries
          ELSE /\ Len(added) = needed
               /\ \E t \in able :
                     /\ \A u \in able \ {t} : RankedBefore(t, u)
                     /\ \A k \in 1..Len(added) :
                           added[k].teacher_name = t /\ EntryCb(added[k]) = cb

\* C21: for each under-scheduled course-batch the repair pass commits the
\* sessions to one teacher: the one that comes first, in ascending order of
\* assigned hours with ties in input order, among the teachers other than the
\* original one who can cover the requirement; it commits nothing when there
\* is none.
C21_LeastLoadedFirst == [][RepairOrderStep(PlacedNow)]_vars

\* the same order of candidates, judged by the slot contents the repair pass
\* itself reads
C21_AsCoded == [][RepairOrderStep(slot_schedule)]_vars
\* the course-batches of the course list with fewer Theory or fewer Lab
\* entries in es than their course requires
ShortCbs(es) ==
    {cb \in AllCbs(courses) :
        LET course == CourseByCode(courses, cb[1])
        IN \/ CountEntries(es, cb, "Theory") < theory_hours(course)
           \/ CountEntries(es, cb, "Lab") < lab_hours(course)}

\* the entries of es, in order, of the course-batches outside S
Without(es, S) == SelectSeq(es, LAMBDA e : EntryCb(e) \notin S)

\* C22: the repair pass drops every entry of every course-batch with a
\* shortfall and keeps the entries of the fully covered course-batches as they
\* were, in the same relative order, up to the proposal it returns; the
\* entries a course-batch with a shortfall ends with are new ones only.
C22_RepairFrameStep ==
    /\ (mode = "STRICT" /\ pc = "find" /\ pc' = "repair") =>
          filtered_entries' = Without(entries, ShortCbs(entries))
    /\ (mode = "STRICT" /\ pc = "find" /\ pc' = "done") =>
          ShortCbs(entries) = {} /\ entries' = entries
    /\ (mode = "STRICT" /\ pc = "repair" /\ pc' = "done") =>
          /\ Without(entries', ShortCbs(entries)) = Without(entries, ShortCbs(entries))
          /\ \A cb \in ShortCbs(entries) :
                EntriesOf(entries', cb) = EntriesOf(new_entries, cb)

C22_RepairFrame == [][C22_RepairFrameStep]_vars

\* a repair pass that dropped placed entries of a course-batch with a
\* shortfall and kept the entries of a fully covered one
C22_Witness ==
    /\ mode = "STRICT" /\ pc = "repair"
    /\ filtered_entries # <<>>
    /\ Len(filtered_entries) < Len(entries)

\* C23: every entry of a returned proposal has its day among config.days and
\* its hour in start_hour..end_hour - 1, whatever grid configuration the
\* planner was called with, and the verifier's time-bounds check then reports
\* nothing.
C23_WithinGrid ==
    (mode \in {"CA", "STRICT"} /\ Returned) =>
       /\ \A i \in 1..Len(entries) :
             /\ entries[i].day \in Range(config.days)
             /\ config.start_hour <= entries[i].hour
             /\ entries[i].hour < config.end_hour
       /\ pc = "verified" =>
             \A k \in 1..Len(vresult.conflicts) :
                vresult.conflicts[k].type \notin {"invalid_day", "invalid_time"}

\* the same for the strict planner alone
C23_StrictWithinGrid == mode = "STRICT" => C23_WithinGrid

\* the teacher-conflict records of the verification result for one (day, hour)
TeacherRecordsAt(slot) ==
    {k \in 1..Len(vresult.conflicts) :
        /\ vresult.conflicts[k].type = "teacher_conflict"
        /\ vresult.conflicts[k].day = slot[1] /\ vresult.conflicts[k].hour = slot[2]}

\* some teacher appears in more than one entry of the proposal at the slot
TeacherClashAt(slot) ==
    \E i, j \in 1..Len(entries) :
       /\ i < j
       /\ EntrySlot(entries[i]) = slot /\ EntrySlot(entries[j]) = slot
       /\ entries[i].teacher_name = entries[j].teacher_name

\* C24: the verifier emits exactly one teacher-conflict record for each
\* (day, hour) at which some teacher appears in more than one entry, and none
\* for any other (day, hour).
C24_OneRecordPerGroup ==
    pc = "verified" =>
       \A slot \in (1..NumWeekdays) \X (FirstHour..(EndHour - 1)) :
          Cardinality(TeacherRecordsAt(slot)) = (IF TeacherClashAt(slot) THEN 1 ELSE 0)

\* one record for each double-booked teacher of each (day, hour), none otherwise
C24_OneRecordPerTeacher ==
    pc = "verified" =>
       \A slot \in (1..NumWeekdays) \X (FirstHour..(EndHour - 1)) :
          Cardinality(TeacherRecordsAt(slot)) =
             Cardinality({t \in Range(TeacherNames) :
                            Cardinality({i \in 1..Len(entries) :
                                           /\ EntrySlot(entries[i]) = slot
                                           /\ entries[i].teacher_name = t}) > 1})

\* the students (rows of the enrollment file) enrolled in both course-batches
SharedStudents(a, b) ==
    {s \in 1..Len(enrollments) :
        a \in Range(enrollments[s]) /\ b \in Range(enrollments[s])}

\* the pair weights and weighted degrees of the loaded index against the
\* enrollment list
WeightsCountStudents ==
    /\ \A a, b \in IndexCbs :
          a # b => Weight(a, b) = Cardinality(SharedStudents(a, b))
    /\ \A a \in IndexCbs :
          Get(conflict_count, a, 0) =
             SumFun([b \in {c \in IndexCbs \ {a} : SharedStudents(a, c) # {}} |->
                       Weight(a, b)])

\* C25: for every enrollment list the pair weight of two distinct
\* course-batches is the number of students enrolled in both, and the weighted
\* degree of a course-batch is the sum of its pair weights over the
\* course-batches it shares a student with.
C25_WeightsCountStudents ==
    (mode = "INDEX" /\ pc \in {"planner", "loaded"}) => WeightsCountStudents

\* the same for enrollment lists in which no record names a course-batch twice
C25_WithoutRepeats ==
    (/\ mode = "INDEX" /\ pc \in {"planner", "loaded"}
     /\ \A s \in 1..Len(enrollments) :
           \A i, j \in 1..Len(enrollments[s]) :
              enrollments[s][i] = enrollments[s][j] => i = j)
    => WeightsCountStudents

\* C26: a call of verify leaves the entries of the proposal, the courses and
\* the configuration as they were, and a second call with the same arguments
\* returns the is_valid, score and violation list of the first (or fails as
\* the first did).
C26_PureStep ==
    /\ (pc = "done" /\ pc' = "verified") =>
          entries' = entries /\ courses' = courses /\ config' = config
    /\ (pc = "verified" /\ pc' = "reverified") =>
          /\ entries' = entries /\ courses' = courses /\ config' = config
          /\ vresult'.raised = vresult.raised
          /\ vresult'.is_valid = vresult.is_valid
          /\ vresult'.score = vresult.score
          /\ vresult'.conflicts = vresult.conflicts

C27_TotalMatches ==
    (mode = "CA" /\ pc \in {"place", "done", "verified"}) =>
       total_conflicts = calculate_conflicts(entries, pair_student_count)

\* a finished run with two course-batches sharing a student in one slot
C27_Witness ==
    /\ mode = "CA" /\ pc = "done"
    /\ \E i, j \in 1..Len(entries) :
          /\ i < j /\ EntrySlot(entries[i]) = EntrySlot(entries[j])
          /\ Weight(EntryCb(entries[i]), EntryCb(entries[j])) > 0

\* some accepted entry holds the teacher or the room of the call at its slot
WouldDoubleBook(call) ==
    \E i \in 1..Len(entries) :
       /\ entries[i].day = call.day /\ entries[i].hour = call.hour
       /\ (entries[i].teacher_name = call.teacher \/ entries[i].room_id = call.room)

\* C28: whatever calls the tool-based planner receives, its accepted entries
\* never hold one teacher or one room twice at a (day, hour), and an assign_slot
\* call that would double-book returns success = False and adds no entry.
C28_ToolStep ==
    mode = "TOOL" =>
       /\ NoDoubleBooking(entries')
       /\ (/\ pc = "tools" /\ tool_result' # tool_result
           /\ tool_result'.name = "assign_slot" /\ WouldDoubleBook(tool_result'))
             => (~tool_result'.ok /\ entries' = entries)

C28_ToolSafe == [][C28_ToolStep]_vars

\* the accepted entries never hold one room twice at a (day, hour)
C28_RoomsSafe ==
    mode = "TOOL" =>
       \A i, j \in 1..Len(entries) :
          (i < j /\ EntrySlot(entries[i]) = EntrySlot(entries[j]))
             => entries[i].room_id # entries[j].room_id

\* the loop ran at most max_iterations times and no result before the last
\* one was valid
LoopBounded ==
    /\ iteration <= MaxIterations /\ Len(results) = iteration
    /\ \A k \in 1..(Len(results) - 1) : ~results[k].is_valid
    /\ (pc = "loop" /\ results # <<>>) => ~results[Len(results)].is_valid

C29_LoopBounded == mode = "ORCH" => LoopBounded

\* the refined proposal has no double-booking, as many entries of every
\* course-batch and session type as before, and every entry in the pool of
\* the room it had
RefinedKept ==
    /\ NoDoubleBooking(entries)
    /\ Len(entries) = Len(prev_entries)
    /\ \A i \in 1..Len(entries) :
          /\ EntryCb(entries[i]) = EntryCb(prev_entries[i])
          /\ entries[i].session_type = prev_entries[i].session_type
          /\ \E r \in 1..Len(RoomPool(prev_entries[i].room_id)) :
                entries[i].room_id = RoomPool(prev_entries[i].room_id)[r]
    /\ \A e \in {prev_entries[i] : i \in 1..Len(prev_entries)} :
          CountEntries(entries, EntryCb(e), e.session_type)
             = CountEntries(prev_entries, EntryCb(e), e.session_type)

\* a single move all of whose target entries have their teacher busy at the
\* new slot
OneBlockedMove ==
    /\ Len(moves) = 1 /\ moves[1].to[1] # 0
    /\ \E i \in 1..Len(prev_entries) : EntryCb(prev_entries[i]) = moves[1].target
    /\ \A i \in 1..Len(prev_entries) :
          EntryCb(prev_entries[i]) = moves[1].target
             => <<moves[1].to[1], moves[1].to[2], prev_entries[i].teacher_name>>
                   \in RefineTeachers(prev_entries)

\* C30: applying any list of suggested moves to a proposal without teacher or
\* room double-booking yields a proposal that still has none, has the same
\* number of entries for every course-batch and session type and keeps every
\* moved entry in its room pool; a move whose target slot has the teacher busy
\* is skipped without changing any entry.
C30_MovesYieldProposal ==
    (mode = "REFINE" /\ pc # "refine") =>
       /\ pc = "refined"
       /\ RefinedKept
       /\ OneBlockedMove => (entries = prev_entries /\ applied = 0)

\* the same for the calls that return
C30_ReturnedKept ==
    (mode = "REFINE" /\ pc = "refined") =>
       /\ RefinedKept
       /\ OneBlockedMove => (entries = prev_entries /\ applied = 0)

\* a call that returned after moving an entry into another room of its pool,
\* and a call that returned after passing over a blocked move
C30_Moved ==
    /\ mode = "REFINE" /\ pc = "refined" /\ applied = Len(moves)
    /\ \E i \in 1..Len(entries) :
          /\ EntrySlot(entries[i]) # EntrySlot(prev_entries[i])
          /\ entries[i].room_id # prev_entries[i].room_id

C30_Blocked ==
    mode = "REFINE" /\ pc = "refined" /\ OneBlockedMove

====
